---- MODULE Spec2Model ----
(***************************************************************************)
(* A model of the outlook-pst crate's file object (UnicodePstFile /        *)
(* AnsiPstFile in crates/pst/src/lib.rs), of its allocation-map rebuild    *)
(* and of the example program that drives the start-write / finish-write   *)
(* protocol.  Offsets, sizes and strides keep their real values.  A bitmap *)
(* (MapBits, an array of bytes) is kept as the byte the array was filled   *)
(* with and the set of the numbers of the bits set since (bit b of byte k  *)
(* has number 8 * k + b, least significant bit first).                     *)
(***************************************************************************)
EXTENDS Integers, Sequences, FiniteSets, TLC

(***************************************************************************)
(* Bounds of the model.                                                    *)
(***************************************************************************)
\* file_eof_index ranges over values that give 0 .. MaxAmapPages AMap pages
MaxAmapPages == 9

(***************************************************************************)
(* Constants of the program.                                               *)
(***************************************************************************)
PAGE_SIZE == 512
MapBitsSize == 496
AMAP_FIRST_OFFSET == 17408
AMAP_DATA_SIZE == MapBitsSize * 8 * 64
PMAP_FIRST_OFFSET == AMAP_FIRST_OFFSET + PAGE_SIZE
PMAP_PAGE_COUNT == 8
PMAP_DATA_SIZE == AMAP_DATA_SIZE * PMAP_PAGE_COUNT
FMAP_FIRST_SIZE == 128
FMAP_FIRST_DATA_SIZE == AMAP_DATA_SIZE * FMAP_FIRST_SIZE
FMAP_FIRST_OFFSET == AMAP_FIRST_OFFSET + FMAP_FIRST_DATA_SIZE + (2 * PAGE_SIZE)
FMAP_PAGE_COUNT == MapBitsSize
FMAP_DATA_SIZE == AMAP_DATA_SIZE * FMAP_PAGE_COUNT
FPMAP_FIRST_SIZE == 128 * 64
FPMAP_FIRST_DATA_SIZE == AMAP_DATA_SIZE * FPMAP_FIRST_SIZE
FPMAP_FIRST_OFFSET == AMAP_FIRST_OFFSET + FPMAP_FIRST_DATA_SIZE + (3 * PAGE_SIZE)
FPMAP_PAGE_COUNT == MapBitsSize * 64
FPMAP_DATA_SIZE == AMAP_DATA_SIZE * FPMAP_PAGE_COUNT

Max(a, b) == IF a >= b THEN a ELSE b

(***************************************************************************)
(* Values.  The rebuild is one generic implementation for both widths      *)
(* (impl PstFileReadWrite for UnicodePstFile / AnsiPstFile, lib.rs 589).   *)
(* Every offset of the model is below 2^31, so it fits the index type of   *)
(* both widths and the TryFrom<u64> conversions of lib.rs succeed.         *)
(* A u64 that wrapped below zero (a build without overflow checks) is kept *)
(* as the negative integer congruent to it modulo 2^64.                    *)
(***************************************************************************)
\* AmapStatus and the byte that stores it
AmapStatusValues == {"Invalid", "Valid", "PartiallyValid"}

AmapStatusTryFrom(byte) ==
    CASE byte = 0 -> "Invalid"
      [] byte = 1 -> "PartiallyValid"
      [] byte = 2 -> "Valid"
      [] OTHER -> "Err"

AmapStatusAsU8(status) ==
    CASE status = "Invalid" -> 0
      [] status = "PartiallyValid" -> 1
      [] OTHER -> 2

\* BlockId::from(index) wraps the raw value
BlockIdFrom(value) == value

\* impl From<UnicodeBlockId> for u64 (and the u32 twin): value.0 & !0x1
BlockIdInto(block_id) == block_id - (block_id % 2)

\* PageTrailerReadWrite::new(page_type, signature, block_id, crc)
PageTrailerNew(page_type, signature, block_id, crc) ==
    [page_type |-> page_type, signature |-> signature,
     block_id |-> block_id, crc |-> crc]

\* MapPageReadWrite::new(map_bits, trailer)
MapPageNew(map_bits, trailer) == [map_bits |-> map_bits, trailer |-> trailer]

\* the numbers of the bits that are set in byte `byte_index` when it holds `value`
ByteBits(byte_index, value) ==
    {8 * byte_index + b : b \in {c \in 0..7 : (value \div (2 ^ c)) % 2 = 1}}

AllBits == 0..(MapBitsSize * 8 - 1)

\* [value; size_of::<MapBits>()]
MapBitsFilled(value) == [fill |-> value, set |-> {}]

\* bytes[byte_index] |= value
MapBitsOr(map_bits, byte_index, value) ==
    [map_bits EXCEPT !.set = @ \cup ByteBits(byte_index, value)]

\* the numbers of the bits that are set in a bitmap
BitsOf(map_bits) ==
    map_bits.set \cup UNION {ByteBits(k, map_bits.fill) : k \in 0..(MapBitsSize - 1)}

(***************************************************************************)
(* The AMap page built for index i before any B-tree page is marked        *)
(* (the closure of rebuild_allocation_map, lib.rs 319-367).                *)
(***************************************************************************)
has_pmap_page(index) == index % 8 = 0

has_fmap_page(index) ==
    /\ has_pmap_page(index)
    /\ index >= FMAP_FIRST_SIZE
    /\ (index - FMAP_FIRST_SIZE) % FMAP_PAGE_COUNT = 0

has_fpmap_page(index) ==
    /\ has_pmap_page(index)
    /\ index >= FPMAP_FIRST_SIZE
    /\ (index - FPMAP_FIRST_SIZE) % FPMAP_PAGE_COUNT = 0

\* a count that takes the FPMap slot wherever the PMap slot is taken
ReservedPagesFpmapWithPmap(index) ==
    1 + (IF has_pmap_page(index) THEN 2 ELSE 0)
      + (IF has_fmap_page(index) THEN 1 ELSE 0)

ReservedPages(index) ==
    1 + (IF has_pmap_page(index) THEN 1 ELSE 0)
      + (IF has_fmap_page(index) THEN 1 ELSE 0)
      + (IF has_fpmap_page(index) THEN 1 ELSE 0)

NewAllocationMapPageInfo(index) ==
    LET offset == index * AMAP_DATA_SIZE + AMAP_FIRST_OFFSET
        trailer == PageTrailerNew("AllocationMap", 0, BlockIdFrom(offset), 0)
        reserved == ReservedPages(index)
        free_space == AMAP_DATA_SIZE - (reserved * PAGE_SIZE)
        map_bits == [MapBitsFilled(0) EXCEPT
                        !.set = UNION {ByteBits(k, 255) : k \in 0..(reserved - 1)}]
    IN  [amap_page |-> MapPageNew(map_bits, trailer), free_space |-> free_space]

(***************************************************************************)
(* mark_page_allocation (lib.rs 558-586).  overflow_checks tells whether   *)
(* the build panics on integer overflow (a debug build) or wraps.  The     *)
(* result is "Ok", an error, or "abort" when the process panics.           *)
(***************************************************************************)
mark_page_allocation(index, amap_pages, overflow_checks) ==
    IF index < AMAP_FIRST_OFFSET
    THEN \* index - AMAP_FIRST_OFFSET underflows: a panic, or a wrapped value
         \* near 2^64 whose AMap index no Vec can hold
         [res |-> IF overflow_checks THEN "abort" ELSE "AllocationMapPageNotFound",
          amap_pages |-> amap_pages]
    ELSE
    LET idx == index - AMAP_FIRST_OFFSET
        amap_index == idx \div AMAP_DATA_SIZE
    IN  IF amap_index \notin DOMAIN amap_pages
        THEN [res |-> "AllocationMapPageNotFound", amap_pages |-> amap_pages]
        ELSE
        LET entry == amap_pages[amap_index]
            bit_index0 == (idx % AMAP_DATA_SIZE) \div 64
            byte_index == bit_index0 \div 8
            bit_index == bit_index0 % 8
            mask == (255 * (2 ^ bit_index)) % 65536
            bits == IF bit_index = 0
                    THEN MapBitsOr(entry.amap_page.map_bits, byte_index, 255)
                    ELSE MapBitsOr(
                            MapBitsOr(entry.amap_page.map_bits, byte_index, mask % 256),
                            byte_index + 1, (mask \div 256) % 256)
            marked == [amap_page |-> [entry.amap_page EXCEPT !.map_bits = bits],
                       free_space |-> entry.free_space - PAGE_SIZE]
        IN  IF entry.free_space < PAGE_SIZE /\ overflow_checks
            THEN [res |-> "abort", amap_pages |-> amap_pages]
            ELSE IF bit_index # 0 /\ byte_index + 1 >= MapBitsSize
            THEN \* bytes[byte_index + 1] is out of range
                 [res |-> "abort", amap_pages |-> amap_pages]
            ELSE [res |-> "Ok",
                  amap_pages |-> [amap_pages EXCEPT ![amap_index] = marked]]

(***************************************************************************)
(* Files.  A file holds a header (its Root), B-tree pages at page-aligned  *)
(* offsets and the map pages; a B-tree page is kept parsed, with a flag    *)
(* for a CRC that does not match.  The files of the model differ in the    *)
(* shape of the node and block B-trees, in what the B-tree pages' trailers *)
(* hold as block id, and in whether one page is corrupt.                   *)
(***************************************************************************)
SlotOffset(amap_index, slot) ==
    AMAP_FIRST_OFFSET + amap_index * AMAP_DATA_SIZE + slot * PAGE_SIZE

NodeRootAt == SlotOffset(0, 2)
BlockRootAt == SlotOffset(0, 3)
KidA == SlotOffset(0, 4)
KidB == SlotOffset(1, 1)
KidC == SlotOffset(0, 5)

Shapes == {"leaf", "two", "twice", "deep", "cycle"}
\* what a B-tree page's trailer holds as block id: the page's own offset, a
\* value 66 bytes beyond it, a small page BID unrelated to the offset, or a
\* value whose 8 bits start at bit 1 of the last byte of the first AMap bitmap
BidModes == {"ib", "unaligned", "bid", "tail"}
BadPages == {0, KidA}

TrailerBid(mode, at) ==
    CASE mode = "ib" -> at
      [] mode = "unaligned" -> at + 66
      [] mode = "tail" -> AMAP_FIRST_OFFSET + ((MapBitsSize - 1) * 8 + 1) * 64
      [] OTHER -> (at \div PAGE_SIZE) * 4

BTreeRef(mode, at) == [block |-> TrailerBid(mode, at), index |-> at]

BTreePageOnDisk(mode, bad, page_type, at, level, kids) ==
    [level |-> level,
     entries |-> [i \in 1..Len(kids) |-> BTreeRef(mode, kids[i])],
     trailer |-> PageTrailerNew(page_type, 0, TrailerBid(mode, at), 0),
     crc_ok |-> (at # bad)]

Image(shape, mode, bad) ==
    LET N(at, level, kids) == BTreePageOnDisk(mode, bad, "NodeBTree", at, level, kids)
        B(at, level, kids) == BTreePageOnDisk(mode, bad, "BlockBTree", at, level, kids)
    IN  CASE shape = "leaf" ->
               (NodeRootAt :> N(NodeRootAt, 0, <<>>)) @@
               (BlockRootAt :> B(BlockRootAt, 0, <<>>))
          [] shape = "two" ->
               (NodeRootAt :> N(NodeRootAt, 1, <<KidA, KidB>>)) @@
               (KidA :> N(KidA, 0, <<>>)) @@
               (KidB :> N(KidB, 0, <<>>)) @@
               (BlockRootAt :> B(BlockRootAt, 1, <<KidC>>)) @@
               (KidC :> B(KidC, 0, <<>>))
          [] shape = "twice" ->
               (NodeRootAt :> N(NodeRootAt, 1, <<KidA, KidA>>)) @@
               (KidA :> N(KidA, 0, <<>>)) @@
               (BlockRootAt :> B(BlockRootAt, 0, <<>>))
          [] shape = "cycle" ->
               (NodeRootAt :> N(NodeRootAt, 2, <<KidA>>)) @@
               (KidA :> N(KidA, 1, <<NodeRootAt>>)) @@
               (BlockRootAt :> B(BlockRootAt, 0, <<>>))
          [] OTHER ->
               (NodeRootAt :> N(NodeRootAt, 2, <<KidA>>)) @@
               (KidA :> N(KidA, 1, <<KidB>>)) @@
               (KidB :> N(KidB, 0, <<>>)) @@
               (BlockRootAt :> B(BlockRootAt, 0, <<>>))

\* file_eof_index: one byte into the first, the second and the last AMap
\* region, exactly the end of the last but one, and one byte short of the
\* first AMap page
EofValues ==
    {AMAP_FIRST_OFFSET + k * AMAP_DATA_SIZE + 1 : k \in {0, 1, MaxAmapPages - 1}}
        \cup {AMAP_FIRST_OFFSET + (MaxAmapPages - 1) * AMAP_DATA_SIZE}
        \cup {AMAP_FIRST_OFFSET - 1}

\* the Root as stored in the header (RootReadWrite::read / write)
RootOnDisk(eof, free, mode, status_byte) ==
    [file_eof_index |-> eof,
     amap_free_size |-> free,
     pmap_free_size |-> 0,
     node_btree |-> BTreeRef(mode, NodeRootAt),
     block_btree |-> BTreeRef(mode, BlockRootAt),
     amap_is_valid |-> status_byte]

(***************************************************************************)
(* RootBTreeReadWrite::read(reader, block_ref): seek to the reference's    *)
(* byte index and parse the page there (BTreePageReadWrite::read); level 0 *)
(* is a leaf page, any other level an intermediate page.                   *)
(***************************************************************************)
NoBTreePage == [level |-> 0, entries |-> <<>>,
                trailer |-> PageTrailerNew("None", 0, 0, 0), crc_ok |-> FALSE]

RootBTreeRead(file, block_ref) ==
    IF file.empty \/ block_ref.index \notin DOMAIN file.btree
    THEN [res |-> "UnexpectedEof", page |-> NoBTreePage]
    ELSE IF ~file.btree[block_ref.index].crc_ok
    THEN [res |-> "InvalidPageCrc", page |-> NoBTreePage]
    ELSE [res |-> "Ok", page |-> file.btree[block_ref.index]]

(***************************************************************************)
(* mark_node_btree_allocations (lib.rs 520-556), the recursion over the    *)
(* node B-tree.  acc carries the AMap pages and the list of what has been  *)
(* marked; path holds the offsets of the pages the recursion is inside: a  *)
(* page that is read again while on the path is read for ever, and the     *)
(* recursion ends only when the stack overflows ("abort").                 *)
(***************************************************************************)
RECURSIVE mark_node_btree_allocations(_, _, _, _, _, _)
RECURSIVE MarkEntries(_, _, _, _, _, _)

mark_node_btree_allocations(file, at, node_btree, path, acc, overflow_checks) ==
    LET index == BlockIdInto(node_btree.trailer.block_id)
        m == mark_page_allocation(index, acc.amap_pages, overflow_checks)
        acc1 == [res |-> m.res, amap_pages |-> m.amap_pages,
                 marked |-> Append(acc.marked, [page |-> at, index |-> index])]
    IN  IF m.res # "Ok" THEN [acc1 EXCEPT !.marked = acc.marked]
        ELSE IF node_btree.level = 0 THEN acc1
        ELSE MarkEntries(file, node_btree.entries, 1, path \cup {at}, acc1,
                         overflow_checks)

MarkEntries(file, entries, i, path, acc, overflow_checks) ==
    IF i > Len(entries) THEN acc
    ELSE LET r == RootBTreeRead(file, entries[i])
         IN  IF r.res # "Ok" THEN [acc EXCEPT !.res = r.res]
             ELSE IF entries[i].index \in path THEN [acc EXCEPT !.res = "abort"]
             ELSE LET sub == mark_node_btree_allocations(
                                file, entries[i].index, r.page, path, acc,
                                overflow_checks)
                  IN  IF sub.res # "Ok" THEN sub
                      ELSE MarkEntries(file, entries, i + 1, path, sub,
                                       overflow_checks)

(***************************************************************************)
(* Errors.  impl From<&PstError> for io::Error (lib.rs 41-50): the         *)
(* no-write-access error becomes an io error of kind PermissionDenied that *)
(* carries the path, any other error an io error of kind Other.            *)
(***************************************************************************)
NoError == [kind |-> "None", what |-> ""]

\* a conversion without the arm for NoWriteAccess
IoErrorFromPstErrorOther(err) == [kind |-> "Other", what |-> err.tag]

IoErrorFromPstError(err) ==
    IF err.tag = "NoWriteAccess"
    THEN [kind |-> "PermissionDenied", what |-> err.path]
    ELSE [kind |-> "Other", what |-> err.tag]

\* the io::Error of a failed read or parse, by the error's name
IoErrorOf(tag) ==
    CASE tag = "Ok" -> NoError
      [] tag = "abort" -> [kind |-> "abort", what |-> ""]
      [] tag = "UnexpectedEof" -> [kind |-> "UnexpectedEof", what |-> ""]
      [] OTHER -> [kind |-> "Other", what |-> tag]

(***************************************************************************)
(* What the writer is asked to do, in order: a page written at an offset   *)
(* (seek + write), a flush, the header written at offset 0.                *)
(***************************************************************************)
NoPage == MapPageNew(MapBitsFilled(0), PageTrailerNew("None", 0, 0, 0))
NoRoot == RootOnDisk(0, 0, "ib", 0)

WritePage(at, page) == [op |-> "write_page", at |-> at, page |-> page, root |-> NoRoot]
Flush == [op |-> "flush", at |-> 0, page |-> NoPage, root |-> NoRoot]
WriteHeader(root) == [op |-> "write_header", at |-> 0, page |-> NoPage, root |-> root]

\* Root::reset_free_size(free_bytes)
reset_free_size(root, free_bytes) ==
    [root EXCEPT !.amap_free_size = free_bytes,
                 !.pmap_free_size = 0,
                 !.amap_is_valid = "Valid"]

\* RootReadWrite::write: the status is stored as its byte
RootWrite(root) == [root EXCEPT !.amap_is_valid = AmapStatusAsU8(root.amap_is_valid)]

\* RootReadWrite::read: a byte that is no status reads as Invalid
RootRead(bytes) ==
    [bytes EXCEPT !.amap_is_valid =
        IF AmapStatusTryFrom(bytes.amap_is_valid) = "Err"
        THEN "Invalid" ELSE AmapStatusTryFrom(bytes.amap_is_valid)]

RECURSIVE SumFreeSpace(_, _)
RECURSIVE SumFreeSpaceSkipsFirst(_, _)
\* a sum that leaves out the first page
SumFreeSpaceSkipsFirst(amap_pages, n) ==
    IF n <= 1 THEN 0
    ELSE amap_pages[n - 1].free_space + SumFreeSpaceSkipsFirst(amap_pages, n - 1)

\* amap_pages.iter().map(|page| page.free_space).sum()
SumFreeSpace(amap_pages, n) ==
    IF n = 0 THEN 0 ELSE amap_pages[n - 1].free_space + SumFreeSpace(amap_pages, n - 1)

(***************************************************************************)
(* rebuild_allocation_map (lib.rs 308-518) on the file object pst over the *)
(* file `file`.  The result tells how the call ended (res, io), whether it *)
(* went past the status check (ran), the AMap pages it built and marked,   *)
(* what it asked of the writer (events) and the header the object holds    *)
(* when the call returns.                                                  *)
(***************************************************************************)
NoAmapPages == [i \in {} |-> NewAllocationMapPageInfo(0)]

\* a result whose header already carries the recomputed free size, whatever
\* the outcome
RebuildResultHeaderReset(pst, res, io, ran, num, pages, marked, free_bytes, events) ==
    [res |-> res, io |-> io, ran |-> ran, num_amap_pages |-> num,
     amap_pages |-> pages, marked |-> marked, free_bytes |-> free_bytes,
     events |-> events,
     header |-> [pst.header EXCEPT
                    !.root = reset_free_size(pst.header.root, SumFreeSpace(pages, num))]]

RebuildResult(pst, res, io, ran, num, pages, marked, free_bytes, events) ==
    [res |-> res, io |-> io, ran |-> ran, num_amap_pages |-> num,
     amap_pages |-> pages, marked |-> marked, free_bytes |-> free_bytes,
     events |-> events, header |-> pst.header]

\* a page count that rounds down
NumAmapPagesFloor(file_eof_index) ==
    (file_eof_index - AMAP_FIRST_OFFSET) \div AMAP_DATA_SIZE

NumAmapPages(file_eof_index) ==
    ((file_eof_index - AMAP_FIRST_OFFSET) + AMAP_DATA_SIZE - 1) \div AMAP_DATA_SIZE

PmapPageCount(num_amap_pages) == num_amap_pages \div 8

FmapPageCount(num_amap_pages) ==
    (Max(num_amap_pages, FMAP_FIRST_SIZE) - FMAP_FIRST_SIZE) \div FMAP_PAGE_COUNT

FpmapPageCount(num_amap_pages) ==
    (Max(num_amap_pages, FPMAP_FIRST_SIZE) - FPMAP_FIRST_SIZE) \div FPMAP_PAGE_COUNT

NewPmapPage(index) ==
    MapPageNew(MapBitsFilled(255),
        PageTrailerNew("AllocationPageMap", 0,
                       BlockIdFrom(index * PMAP_DATA_SIZE + PMAP_FIRST_OFFSET), 0))

NewFmapPage(index) ==
    MapPageNew(MapBitsFilled(0),
        PageTrailerNew("FreeMap", 0,
                       BlockIdFrom(index * FMAP_DATA_SIZE + FMAP_FIRST_OFFSET), 0))

\* (FPMAP_DATA_SIZE is above 2^31: the product is formed for index > 0 only)
NewFpmapPage(index) ==
    MapPageNew(MapBitsFilled(0),
        PageTrailerNew("FreePageMap", 0,
                       BlockIdFrom((IF index = 0 THEN 0 ELSE index * FPMAP_DATA_SIZE)
                                       + FPMAP_FIRST_OFFSET), 0))

\* the same writes with the header written first
RebuildWritesHeaderFirst(amap_pages, num, header) ==
    <<WriteHeader(RootWrite(header.root)), Flush>>
    \o [i \in 1..num |->
        WritePage(BlockIdInto(amap_pages[i - 1].amap_page.trailer.block_id),
                  amap_pages[i - 1].amap_page)]
    \o [i \in 1..PmapPageCount(num) |->
        WritePage(BlockIdInto(NewPmapPage(i - 1).trailer.block_id), NewPmapPage(i - 1))]
    \o [i \in 1..FmapPageCount(num) |->
        WritePage(BlockIdInto(NewFmapPage(i - 1).trailer.block_id), NewFmapPage(i - 1))]
    \o [i \in 1..FpmapPageCount(num) |->
        WritePage(BlockIdInto(NewFpmapPage(i - 1).trailer.block_id), NewFpmapPage(i - 1))]
    \o <<Flush>>

\* the writes of lib.rs 474-517, in the order the code issues them
RebuildWrites(amap_pages, num, header) ==
    [i \in 1..num |->
        WritePage(BlockIdInto(amap_pages[i - 1].amap_page.trailer.block_id),
                  amap_pages[i - 1].amap_page)]
    \o [i \in 1..PmapPageCount(num) |->
        WritePage(BlockIdInto(NewPmapPage(i - 1).trailer.block_id), NewPmapPage(i - 1))]
    \o [i \in 1..FmapPageCount(num) |->
        WritePage(BlockIdInto(NewFmapPage(i - 1).trailer.block_id), NewFmapPage(i - 1))]
    \o [i \in 1..FpmapPageCount(num) |->
        WritePage(BlockIdInto(NewFpmapPage(i - 1).trailer.block_id), NewFpmapPage(i - 1))]
    \o <<Flush, WriteHeader(RootWrite(header.root)), Flush>>

\* an entry check with the comparison turned around
SkipsRebuildInverted(root) == "Invalid" = root.amap_is_valid

\* an entry check that lets only Valid return at once
SkipsRebuildUnlessValid(root) == "Valid" = root.amap_is_valid

\* the entry check (lib.rs 311-313): anything but Invalid returns Ok at once
SkipsRebuild(root) == "Invalid" # root.amap_is_valid

rebuild_allocation_map(pst, file, overflow_checks) ==
    LET root == pst.header.root
        Result(res, io, ran, num, pages, marked, free_bytes, events) ==
            RebuildResult(pst, res, io, ran, num, pages, marked, free_bytes, events)
        Failed(tag, num, pages, marked) ==
            Result(tag, IoErrorOf(tag), TRUE, num, pages, marked, 0, <<>>)
    IN
    IF SkipsRebuild(root)
    THEN Result("Ok", NoError, FALSE, 0, NoAmapPages, <<>>, 0, <<>>)
    ELSE IF root.file_eof_index < AMAP_FIRST_OFFSET
    THEN \* the subtraction underflows: a panic, or a page count near 2^64 / 253952
         \* whose Vec cannot be allocated
         Failed("abort", 0, NoAmapPages, <<>>)
    ELSE
    LET num_amap_pages == NumAmapPages(root.file_eof_index)
        amap_pages == [index \in 0..(num_amap_pages - 1) |->
                          NewAllocationMapPageInfo(index)]
        node_btree == RootBTreeRead(file, root.node_btree)
        block_btree == RootBTreeRead(file, root.block_btree)
    IN
    IF node_btree.res # "Ok" THEN Failed(node_btree.res, num_amap_pages, amap_pages, <<>>)
    ELSE IF block_btree.res # "Ok"
    THEN Failed(block_btree.res, num_amap_pages, amap_pages, <<>>)
    ELSE
    LET walk == mark_node_btree_allocations(
                    file, root.node_btree.index, node_btree.page, {},
                    [res |-> "Ok", amap_pages |-> amap_pages, marked |-> <<>>],
                    overflow_checks)
    IN
    IF walk.res # "Ok" THEN Failed(walk.res, num_amap_pages, walk.amap_pages, walk.marked)
    ELSE
    LET free_bytes == SumFreeSpace(walk.amap_pages, num_amap_pages)
        header == [pst.header EXCEPT !.root = reset_free_size(root, free_bytes)]
    IN
    IF ~pst.writer.ok
    THEN Result(pst.writer.err.tag, IoErrorFromPstError(pst.writer.err), TRUE,
                num_amap_pages, walk.amap_pages, walk.marked, free_bytes, <<>>)
    ELSE Result("Ok", NoError, TRUE, num_amap_pages, walk.amap_pages, walk.marked,
                free_bytes, RebuildWrites(walk.amap_pages, num_amap_pages, header))

(***************************************************************************)
(* start_write and finish_write (trait PstFile; called by the example      *)
(* rebuild_amap.rs 19-33).  start_write first rebuilds the allocation map  *)
(* if the header it holds says Invalid, then sets the status to Invalid,   *)
(* writes the header and flushes; finish_write sets the status to Valid,   *)
(* writes the header and flushes.  Both need the write handle.             *)
(***************************************************************************)
SetStatusAndWrite(pst, status, r) ==
    LET header == [pst.header EXCEPT !.root.amap_is_valid = status]
    IN  IF ~pst.writer.ok
        THEN [r EXCEPT !.res = pst.writer.err.tag,
                       !.io = IoErrorFromPstError(pst.writer.err)]
        ELSE [r EXCEPT !.events = r.events \o <<WriteHeader(RootWrite(header.root)), Flush>>,
                       !.header = header]

start_write(pst, file, overflow_checks) ==
    LET r == rebuild_allocation_map(pst, file, overflow_checks)
    IN  IF r.res # "Ok" THEN r ELSE SetStatusAndWrite(pst, "Invalid", r)

finish_write(pst, file, overflow_checks) ==
    SetStatusAndWrite(pst, "Valid",
        RebuildResult(pst, "Ok", NoError, FALSE, 0, NoAmapPages, <<>>, 0, <<>>))

(***************************************************************************)
(* The file system.  File::create truncates a regular file; on a file that *)
(* truncation does not affect (a device) the content stays.                *)
(***************************************************************************)
EmptyFile == [empty |-> TRUE, root |-> NoRoot,
              btree |-> [at \in {} |-> NoBTreePage],
              maps |-> [at \in {} |-> NoPage]]

FileCreate(writable, regular, file) ==
    IF ~writable THEN [ok |-> FALSE, file |-> file]
    ELSE [ok |-> TRUE, file |-> IF regular THEN EmptyFile ELSE file]

RECURSIVE ApplyEvents(_, _, _)
ApplyEvents(file, events, i) ==
    IF i > Len(events) THEN file
    ELSE LET ev == events[i]
             next == CASE ev.op = "write_page" ->
                            [file EXCEPT !.maps = (ev.at :> ev.page) @@ file.maps,
                                         !.empty = FALSE]
                       [] ev.op = "write_header" ->
                            [file EXCEPT !.root = ev.root, !.empty = FALSE]
                       [] OTHER -> file
         IN  ApplyEvents(next, events, i + 1)

(***************************************************************************)
(* State.                                                                  *)
(***************************************************************************)
VARIABLES
    env,    \* what does not change: the build, the file's kind and permission, the program
    file,   \* the file on disk
    pst,    \* the open file object (UnicodePstFile / AnsiPstFile), if any
    pc,     \* where the running program is
    last,   \* the last call: what it found, what it returned
    trace,  \* the calls the example program has made so far
    unit    \* a call of one function of the ndb layer: its arguments and its result

vars == <<env, file, pst, pc, last, trace, unit>>

Path == "mail.pst"

NoWriteAccess == [tag |-> "NoWriteAccess", path |-> Path]

NoPst == [open |-> FALSE,
          writer |-> [ok |-> FALSE, err |-> NoWriteAccess],
          header |-> [root |-> RootRead(NoRoot)]]

\* a call: the object and the file it found (before) and what it returned
Call(op, r, pst_before, file_before) ==
    [op |-> op, res |-> r.res, io |-> r.io, ran |-> r.ran,
     num_amap_pages |-> r.num_amap_pages, amap_pages |-> r.amap_pages,
     marked |-> r.marked, free_bytes |-> r.free_bytes, events |-> r.events,
     before |-> [pst |-> pst_before, file |-> file_before]]

NoCall == Call("none",
               RebuildResult(NoPst, "Ok", NoError, FALSE, 0, NoAmapPages, <<>>, 0, <<>>),
               NoPst, EmptyFile)

\* no function of the ndb layer has been called
NoUnit == [fn |-> "none", arg |-> <<>>, out |-> <<>>, done |-> FALSE]

\* a call of fn that has not returned yet
UnitCall(fn, arg) == [fn |-> fn, arg |-> arg, out |-> <<>>, done |-> FALSE]

\* what the example program's trace keeps of a call
Traced(op, r, pst_before, file_after) ==
    [op |-> op, res |-> r.res, observed |-> pst_before.header.root.amap_is_valid,
     ran |-> r.ran, events |-> r.events,
     status_on_disk |-> file_after.root.amap_is_valid]

Init ==
    /\ env \in [overflow_checks : BOOLEAN,
                 writable : BOOLEAN, regular : BOOLEAN,
                 program : {"library", "rebuild_amap"}]
    /\ \E shape \in Shapes, mode \in BidModes, bad \in BadPages,
          eof \in EofValues, status_byte \in 0..3 :
          file = [empty |-> FALSE,
                  root |-> RootOnDisk(eof, 0, mode, status_byte),
                  btree |-> Image(shape, mode, bad),
                  maps |-> [at \in {} |-> NoPage]]
    /\ pst = NoPst
    /\ pc = "start"
    /\ last = NoCall
    /\ trace = <<>>
    /\ unit = NoUnit

(***************************************************************************)
(* UnicodePstFile::open (lib.rs 105-123) and AnsiPstFile::read (177-193).  *)
(***************************************************************************)
\* an open that rebuilds the allocation map when it reads Invalid
OpenFileRebuilding(writable, regular, f) ==
    LET created == FileCreate(writable, regular, f)
        opened == [open |-> TRUE,
                   writer |-> [ok |-> created.ok, err |-> NoWriteAccess],
                   header |-> [root |-> RootRead(created.file.root)]]
        r == rebuild_allocation_map(opened, created.file, FALSE)
    IN  IF created.file.empty
        THEN [res |-> "UnexpectedEof", file |-> created.file, pst |-> NoPst]
        ELSE [res |-> "Ok", file |-> ApplyEvents(created.file, r.events, 1),
              pst |-> opened]

OpenFile(writable, regular, f) ==
    LET created == FileCreate(writable, regular, f)
        writer == [ok |-> created.ok, err |-> NoWriteAccess]
    IN  IF created.file.empty
        THEN [res |-> "UnexpectedEof", file |-> created.file, pst |-> NoPst]
        ELSE [res |-> "Ok", file |-> created.file,
              pst |-> [open |-> TRUE, writer |-> writer,
                       header |-> [root |-> RootRead(created.file.root)]]]

OpenResult(o) ==
    RebuildResult(o.pst, o.res, IoErrorOf(o.res), FALSE, 0, NoAmapPages, <<>>, 0, <<>>)

Open ==
    /\ pc = "start"
    /\ LET o == OpenFile(env.writable, env.regular, file)
       IN  /\ file' = o.file
           /\ pst' = o.pst
           /\ last' = Call("open", OpenResult(o), pst, file)
           /\ pc' = IF o.res # "Ok" THEN "failed"
                    ELSE IF env.program = "library" THEN "opened" ELSE "start_write_1"
    /\ UNCHANGED <<env, trace, unit>>

\* a call of a method of the open object, and where the program goes next
Invoke(op, r, next_pc) ==
    /\ file' = ApplyEvents(file, r.events, 1)
    /\ last' = Call(op, r, pst, file)
    /\ trace' = IF env.program = "rebuild_amap"
                THEN Append(trace, Traced(op, r, pst, ApplyEvents(file, r.events, 1)))
                ELSE trace
    /\ pst' = IF r.res = "abort" THEN NoPst ELSE [pst EXCEPT !.header = r.header]
    /\ pc' = IF r.res = "abort" THEN "aborted" ELSE next_pc
    /\ UNCHANGED <<env, unit>>

(***************************************************************************)
(* A program that uses the library calls the methods in any order.         *)
(***************************************************************************)
RebuildAllocationMap ==
    /\ pc = "opened"
    /\ Invoke("rebuild_allocation_map",
              rebuild_allocation_map(pst, file, env.overflow_checks), "opened")

StartWrite ==
    /\ pc = "opened"
    /\ Invoke("start_write", start_write(pst, file, env.overflow_checks), "opened")

FinishWrite ==
    /\ pc = "opened"
    /\ Invoke("finish_write", finish_write(pst, file, env.overflow_checks), "opened")

(***************************************************************************)
(* The example program rebuild_amap (examples/rebuild_amap.rs 19-33):      *)
(* start_write, start_write, finish_write, each with expect().             *)
(***************************************************************************)
Expect(r, next_pc) == IF r.res = "Ok" THEN next_pc ELSE "panicked"

ExampleStartWrite1 ==
    /\ pc = "start_write_1"
    /\ LET r == start_write(pst, file, env.overflow_checks)
       IN  Invoke("start_write", r, Expect(r, "start_write_2"))

ExampleStartWrite2 ==
    /\ pc = "start_write_2"
    /\ LET r == start_write(pst, file, env.overflow_checks)
       IN  Invoke("start_write", r, Expect(r, "finish_write"))

ExampleFinishWrite ==
    /\ pc = "finish_write"
    /\ LET r == finish_write(pst, file, env.overflow_checks)
       IN  Invoke("finish_write", r, Expect(r, "done"))

Next ==
    \/ Open
    \/ RebuildAllocationMap
    \/ StartWrite
    \/ FinishWrite
    \/ ExampleStartWrite1
    \/ ExampleStartWrite2
    \/ ExampleFinishWrite

Spec == Init /\ [][Next]_vars

(***************************************************************************)
(* The ndb layer.  Its functions are pure: each is an operator, and the    *)
(* specification SpecNdb calls each of them once on arguments drawn from   *)
(* small sets.                                                             *)
(*                                                                         *)
(* Unsigned words (u64, u32).  A word of w bits is a function from the bit *)
(* places 0..w-1 (0 the least significant) to {0, 1}.                      *)
(***************************************************************************)
U64 == 64
U32 == 32

Word(places, w) == [k \in 0..(w - 1) |-> IF k \in places THEN 1 ELSE 0]

Width(word) == Cardinality(DOMAIN word)

\* u64::rotate_left / rotate_right
rotate_left(word, n) ==
    LET w == Width(word) IN [k \in 0..(w - 1) |-> word[(k - n + w) % w]]

rotate_right(word, n) ==
    LET w == Width(word) IN [k \in 0..(w - 1) |-> word[(k + n) % w]]

\* word >> n
ShiftRight(word, n) ==
    LET w == Width(word) IN [k \in 0..(w - 1) |-> IF k + n < w THEN word[k + n] ELSE 0]

\* word & mask, word | mask
BitAnd(word, mask) == [k \in DOMAIN word |-> IF mask[k] = 1 THEN word[k] ELSE 0]

BitOr(word, mask) == [k \in DOMAIN word |-> IF mask[k] = 1 THEN 1 ELSE word[k]]

\* word - 1, wrapping
MinusOne(word) ==
    [k \in DOMAIN word |->
        IF \A j \in 0..(k - 1) : word[j] = 0 THEN 1 - word[k] ELSE word[k]]

Zero(w) == Word({}, w)

(***************************************************************************)
(* Block ids (block_id.rs).                                                *)
(***************************************************************************)
MAX_UNICODE_BLOCK_INDEX == MinusOne(rotate_right(Word({0}, U64), 2))

MAX_ANSI_BLOCK_INDEX == MinusOne(rotate_right(Word({0}, U32), 2))

BlockIdResult(res, value, index) == [res |-> res, value |-> value, index |-> index]

\* a check of the lowest bit only
ShiftedIndexLowBitSet(shifted_index) ==
    BitAnd(shifted_index, Word({0}, Width(shifted_index))) # Zero(Width(shifted_index))

\* shifted_index & 0x3 != 0
ShiftedIndexOutOfRange(shifted_index) ==
    BitAnd(shifted_index, Word({0, 1}, Width(shifted_index))) # Zero(Width(shifted_index))

\* UnicodeBlockId::new (block_id.rs 24-33)
UnicodeBlockIdNew(is_internal, index) ==
    LET internal_bit == IF is_internal THEN Word({1}, U64) ELSE Zero(U64)
        shifted_index == rotate_left(index, 2)
    IN  IF ShiftedIndexOutOfRange(shifted_index)
        THEN BlockIdResult("InvalidUnicodeBlockIndex", Zero(U64), index)
        ELSE BlockIdResult("Ok", BitOr(shifted_index, internal_bit), Zero(U64))

\* AnsiBlockId::new (block_id.rs 92-101)
AnsiBlockIdNew(is_internal, index) ==
    LET internal_bit == IF is_internal THEN Word({1}, U32) ELSE Zero(U32)
        shifted_index == rotate_left(index, 2)
    IN  IF ShiftedIndexOutOfRange(shifted_index)
        THEN BlockIdResult("InvalidAnsiBlockIndex", Zero(U32), index)
        ELSE BlockIdResult("Ok", BitOr(shifted_index, internal_bit), Zero(U32))

\* BlockId::is_internal: self.0 & 0x2 == 0x2
BlockIdIsInternal(block_id) ==
    BitAnd(block_id, Word({1}, Width(block_id))) = Word({1}, Width(block_id))

\* BlockId::index: self.0 >> 2
BlockIdIndex(block_id) == ShiftRight(block_id, 2)

\* the indexes tried: every choice of the three lowest and the three highest
\* bits, with the bits between all clear or all set
SampleIndexes(w) ==
    {Word(places \cup middle, w) :
        places \in SUBSET {0, 1, 2, w - 3, w - 2, w - 1},
        middle \in {{}, 3..(w - 4)}}

(***************************************************************************)
(* Blocks (block.rs).                                                      *)
(***************************************************************************)
MAX_BLOCK_SIZE == 8192

\* a rounding that goes down
block_size_rounding_down(size) ==
    IF size >= MAX_BLOCK_SIZE THEN MAX_BLOCK_SIZE
    ELSE LET floored == IF size < 64 THEN 64 ELSE size
         IN  floored - (floored % 64)

\* block_size (block.rs 10-22), size a u16
block_size(size) ==
    IF size >= MAX_BLOCK_SIZE THEN MAX_BLOCK_SIZE
    ELSE LET floored == IF size < 64 THEN 64 ELSE size
             tail == floored % 64
         IN  IF tail = 0 THEN floored ELSE floored - tail + 64

\* the sizes tried: everything up to two steps past the maximum, and the
\* largest u16
SampleSizes == 0..(MAX_BLOCK_SIZE + 2 * 64) \cup {65535}

(***************************************************************************)
(* Byte streams (std::io::Cursor, File): the bytes written so far, by      *)
(* position, and the current position.  A position below len that was      *)
(* never written reads as 0; seeking beyond the end is allowed.            *)
(***************************************************************************)
StreamOf(bytes) ==
    [len |-> Len(bytes), cells |-> [i \in 0..(Len(bytes) - 1) |-> bytes[i + 1]], pos |-> 0]

ByteAt(f, at) == IF at \in DOMAIN f.cells THEN f.cells[at] ELSE 0

\* Read::read_exact
read_exact(f, n) ==
    IF f.pos + n > f.len
    THEN [res |-> "UnexpectedEof", bytes |-> <<>>, f |-> f]
    ELSE [res |-> "Ok", bytes |-> [i \in 1..n |-> ByteAt(f, f.pos + i - 1)],
          f |-> [f EXCEPT !.pos = f.pos + n]]

\* Write::write_all
write_all(f, bytes) ==
    [len |-> Max(f.len, f.pos + Len(bytes)),
     cells |-> [at \in DOMAIN f.cells \cup (f.pos..(f.pos + Len(bytes) - 1)) |->
                  IF at >= f.pos /\ at < f.pos + Len(bytes)
                  THEN bytes[at - f.pos + 1] ELSE f.cells[at]],
     pos |-> f.pos + Len(bytes)]

\* Seek::seek(SeekFrom::Current(offset)) and seek(SeekFrom::Start(at))
seek_current(f, offset) == [f EXCEPT !.pos = f.pos + offset]

seek_start(f, at) == [f EXCEPT !.pos = at]

\* little-endian integers of n bytes
RECURSIVE LittleEndian(_, _)
LittleEndian(value, n) ==
    IF n = 0 THEN <<>> ELSE <<value % 256>> \o LittleEndian(value \div 256, n - 1)

RECURSIVE FromLittleEndian(_)
FromLittleEndian(bytes) ==
    IF bytes = <<>> THEN 0 ELSE bytes[1] + 256 * FromLittleEndian(Tail(bytes))

\* u16 subtraction: a panic when overflow is checked, else the wrapped value
U16Sub(a, b, overflow_checks) ==
    IF a >= b THEN [res |-> "Ok", value |-> a - b]
    ELSE IF overflow_checks THEN [res |-> "abort", value |-> 0]
    ELSE [res |-> "Ok", value |-> a - b + 65536]

(***************************************************************************)
(* crc::compute_crc and encode::{permute, cyclic}: a checksum that depends *)
(* on every byte and on their order, a substitution with its inverse, and  *)
(* a keyed self-inverse substitution that depends on the position.         *)
(***************************************************************************)
RECURSIVE WeightedSum(_, _, _)
WeightedSum(bytes, from, to) ==
    IF from > to THEN 0
    ELSE IF from = to THEN (from * (bytes[from] + 1)) % 65521
    ELSE LET middle == (from + to) \div 2
         IN  (WeightedSum(bytes, from, middle) + WeightedSum(bytes, middle + 1, to)) % 65521

compute_crc(crc, bytes) == (crc + WeightedSum(bytes, 1, Len(bytes))) % 65521

permute_encode_block(data) == [i \in 1..Len(data) |-> (data[i] * 7 + 3) % 256]

permute_decode_block(data) == [i \in 1..Len(data) |-> ((data[i] + 253) * 183) % 256]

cyclic_encode_decode_block(data, key) ==
    [i \in 1..Len(data) |-> (((key + i) % 256) + 256 - data[i]) % 256]

CryptMethods == {"None", "Permute", "Cyclic"}

(***************************************************************************)
(* Block trailers (block.rs 36-212).  A trailer is the record of its four  *)
(* fields; a block id is its raw value.                                    *)
(***************************************************************************)
UnicodeBlockTrailerSIZE == 16
AnsiBlockTrailerSIZE == 12

TrailerSIZE(unicode) == IF unicode THEN UnicodeBlockTrailerSIZE ELSE AnsiBlockTrailerSIZE

NoBlockTrailer == [size |-> 0, signature |-> 0, crc |-> 0, block_id |-> 0]

\* BlockId::is_internal on a raw value: self.0 & 0x2 == 0x2
is_internal(block_id) == (block_id \div 2) % 2 = 1

\* UnicodeBlockTrailer::new / AnsiBlockTrailer::new
BlockTrailerNew(unicode, size, signature, crc, block_id) ==
    IF size < 1 \/ size > MAX_BLOCK_SIZE - TrailerSIZE(unicode)
    THEN [res |-> "InvalidBlockSize", what |-> size, trailer |-> NoBlockTrailer]
    ELSE [res |-> "Ok", what |-> 0,
          trailer |-> [size |-> size, signature |-> signature, crc |-> crc,
                       block_id |-> block_id]]

\* BlockTrailerReadWrite::write: size, signature, then crc and block id
\* (Unicode) or block id and crc (ANSI)
BlockTrailerBytes(unicode, trailer) ==
    LittleEndian(trailer.size, 2) \o LittleEndian(trailer.signature, 2)
    \o (IF unicode
        THEN LittleEndian(trailer.crc, 4) \o LittleEndian(trailer.block_id, 8)
        ELSE LittleEndian(trailer.block_id, 4) \o LittleEndian(trailer.crc, 4))

BlockTrailerWrite(unicode, trailer, f) == write_all(f, BlockTrailerBytes(unicode, trailer))

\* BlockTrailerReadWrite::read
BlockTrailerRead(unicode, f) ==
    LET size == read_exact(f, 2)
        rest == read_exact(size.f, TrailerSIZE(unicode) - 2)
        field(from, to) == FromLittleEndian(SubSeq(rest.bytes, from, to))
    IN  IF size.res # "Ok"
        THEN [res |-> size.res, what |-> 0, trailer |-> NoBlockTrailer, f |-> f]
        ELSE IF FromLittleEndian(size.bytes) < 1
                \/ FromLittleEndian(size.bytes) > MAX_BLOCK_SIZE - TrailerSIZE(unicode)
        THEN [res |-> "InvalidBlockSize", what |-> FromLittleEndian(size.bytes),
              trailer |-> NoBlockTrailer, f |-> size.f]
        ELSE IF rest.res # "Ok"
        THEN [res |-> rest.res, what |-> 0, trailer |-> NoBlockTrailer, f |-> size.f]
        ELSE [res |-> "Ok", what |-> 0, f |-> rest.f,
              trailer |-> [size |-> FromLittleEndian(size.bytes),
                           signature |-> field(1, 2),
                           crc |-> IF unicode THEN field(3, 6) ELSE field(7, 10),
                           block_id |-> IF unicode THEN field(7, 14) ELSE field(3, 6)]]

\* BlockTrailer::cyclic_key: the low 32 bits of the block id's index form
cyclic_key(trailer) == BlockIdInto(trailer.block_id)

\* BlockTrailer::verify_block_id
verify_block_id(unicode, trailer, internal) ==
    IF is_internal(trailer.block_id) # internal
    THEN [res |-> IF unicode THEN "InvalidUnicodeBlockTrailerId"
                  ELSE "InvalidAnsiBlockTrailerId",
          what |-> BlockIdInto(trailer.block_id)]
    ELSE [res |-> "Ok", what |-> 0]

(***************************************************************************)
(* Data blocks: BlockReadWrite::read and write (read_write.rs 359-428).    *)
(* A block is its encoding, its (decoded) data and its trailer.            *)
(***************************************************************************)
NoBlock == [encoding |-> "None", data |-> <<>>, trailer |-> NoBlockTrailer]

BlockResult(res, what, f, block) == [res |-> res, what |-> what, f |-> f, block |-> block]

\* UnicodeDataBlock::new / AnsiDataBlock::new (block.rs 229-244, 283-298)
DataBlockNew(unicode, encoding, data, trailer) ==
    LET verified == verify_block_id(unicode, trailer, FALSE)
    IN  IF verified.res # "Ok"
        THEN [res |-> verified.res, what |-> verified.what, block |-> NoBlock]
        ELSE [res |-> "Ok", what |-> 0,
              block |-> [encoding |-> encoding, data |-> data, trailer |-> trailer]]

\* the gap between the data and the trailer:
\* block_size(size) - size - trailer_size, in u16
TrailerOffset(size, trailer_size, overflow_checks) ==
    LET first == U16Sub(block_size(size), size, overflow_checks)
    IN  IF first.res # "Ok" THEN first
        ELSE U16Sub(first.value, trailer_size, overflow_checks)

DecodeBlock(encoding, data, key) ==
    CASE encoding = "Cyclic" -> cyclic_encode_decode_block(data, key)
      [] encoding = "Permute" -> permute_decode_block(data)
      [] OTHER -> data

EncodeBlock(encoding, data, key) ==
    CASE encoding = "Cyclic" -> cyclic_encode_decode_block(data, key)
      [] encoding = "Permute" -> permute_encode_block(data)
      [] OTHER -> data

\* BlockReadWrite::read (read_write.rs 362-394)
DataBlockRead(unicode, f, size, encoding, overflow_checks) ==
    LET data == read_exact(f, size)
        offset == TrailerOffset(size, TrailerSIZE(unicode), overflow_checks)
        sought == IF offset.value > 0 THEN seek_current(data.f, offset.value) ELSE data.f
        read == BlockTrailerRead(unicode, sought)
        trailer == read.trailer
        verified == verify_block_id(unicode, trailer, FALSE)
        crc == compute_crc(0, data.bytes)
        block == DataBlockNew(unicode, encoding,
                              DecodeBlock(encoding, data.bytes, cyclic_key(trailer)), trailer)
    IN  IF data.res # "Ok" THEN BlockResult(data.res, 0, f, NoBlock)
        ELSE IF offset.res # "Ok" THEN BlockResult("abort", 0, data.f, NoBlock)
        ELSE IF read.res # "Ok" THEN BlockResult(read.res, read.what, read.f, NoBlock)
        ELSE IF trailer.size # size
        THEN BlockResult("InvalidBlockSize", trailer.size, read.f, NoBlock)
        ELSE IF verified.res # "Ok"
        THEN BlockResult(verified.res, verified.what, read.f, NoBlock)
        ELSE IF crc # trailer.crc THEN BlockResult("InvalidBlockCrc", crc, read.f, NoBlock)
        ELSE BlockResult(block.res, block.what, read.f, block.block)

\* BlockReadWrite::write (read_write.rs 396-427); the gap is computed with
\* UnicodeBlockTrailer::SIZE for every block type (line 421)
DataBlockWrite(unicode, block, f, overflow_checks) ==
    LET data == EncodeBlock(block.encoding, block.data, cyclic_key(block.trailer))
        crc == compute_crc(0, data)
        trailer == BlockTrailerNew(unicode, Len(data), block.trailer.signature, crc,
                                   block.trailer.block_id)
        written == write_all(f, data)
        offset == TrailerOffset(Len(data), UnicodeBlockTrailerSIZE, overflow_checks)
        sought == IF offset.value > 0 THEN seek_current(written, offset.value) ELSE written
    IN  IF trailer.res # "Ok" THEN BlockResult(trailer.res, trailer.what, f, block)
        ELSE IF offset.res # "Ok" THEN BlockResult("abort", 0, written, block)
        ELSE BlockResult("Ok", 0, BlockTrailerWrite(unicode, trailer.trailer, sought), block)

(***************************************************************************)
(* Blocks as they lie in a file: the encoded data, zero padding up to the  *)
(* footprint block_size(size + trailer_size) that UnicodeDataTree::read    *)
(* and AnsiDataTree::read take (block.rs 596, 658), and the trailer in the *)
(* last bytes of the footprint.  A fault makes the trailer disagree with   *)
(* the block: in its size, in the internal bit of its block id, or in its  *)
(* CRC.                                                                    *)
(***************************************************************************)
SampleBlockSizes ==
    {1, 2, 47, 48, 49, 52, 53, 63, 64, 65, 111, 112, 113, 116, 117, 128, 176, 177}

SampleData(size) == [i \in 1..size |-> (i * i + 5 * size) % 256]

\* the raw values of two block ids with index 65: external, and internal (bit 1 set)
ExternalBlockId == 65 * 4
InternalBlockId == 65 * 4 + 2

Faults == {"none", "size", "internal", "crc"}

BlockOnDisk(unicode, encoding, data, signature, block_id, fault) ==
    LET stored == EncodeBlock(encoding, data, BlockIdInto(block_id))
        size == Len(stored)
        footprint == block_size(size + TrailerSIZE(unicode))
        trailer == [size |-> IF fault = "size" THEN size + 1 ELSE size,
                    signature |-> signature,
                    crc |-> IF fault = "crc" THEN (compute_crc(0, stored) + 1) % 65521
                            ELSE compute_crc(0, stored),
                    block_id |-> IF fault = "internal" THEN block_id + 2 ELSE block_id]
    IN  stored \o [i \in 1..(footprint - size - TrailerSIZE(unicode)) |-> 0]
        \o BlockTrailerBytes(unicode, trailer)

BlockReadCalls ==
    {UnitCall("Block::read",
              [unicode |-> u, encoding |-> e, size |-> n, overflow_checks |-> c,
               fault |-> x, signature |-> 7, block_id |-> ExternalBlockId,
               data |-> SampleData(n)]) :
        u \in BOOLEAN, e \in CryptMethods, n \in SampleBlockSizes, c \in BOOLEAN,
        x \in Faults}

\* the file a Block::read call reads: the block as stored, at the start
BlockReadFile(arg) ==
    StreamOf(BlockOnDisk(arg.unicode, arg.encoding, arg.data, arg.signature, arg.block_id,
                         arg.fault))

\* a block to write, and the write followed by a read from the same position
\* with the same size and crypt method
BlockRoundTripCalls ==
    {UnitCall("Block::write/read",
              [unicode |-> u, encoding |-> e, size |-> n, overflow_checks |-> c,
               signature |-> 7, block_id |-> ExternalBlockId, data |-> SampleData(n)]) :
        u \in BOOLEAN, e \in CryptMethods, n \in SampleBlockSizes, c \in BOOLEAN}

WriteThenRead(unicode, encoding, data, signature, block_id, overflow_checks) ==
    LET trailer == BlockTrailerNew(unicode, Len(data), signature, 0, block_id)
        block == DataBlockNew(unicode, encoding, data, trailer.trailer)
        written == DataBlockWrite(unicode, block.block, StreamOf(<<>>), overflow_checks)
    IN  [write |-> written,
         read |-> IF written.res = "Ok"
                  THEN DataBlockRead(unicode, seek_start(written.f, 0), Len(data), encoding,
                                     overflow_checks)
                  ELSE BlockResult("none", 0, written.f, NoBlock)]

(***************************************************************************)
(* B-tree pages as bytes: UnicodeBTreePageReadWrite and                    *)
(* AnsiBTreePageReadWrite (read_write.rs 127-349).  The entry codecs, the  *)
(* page trailer codec and BTreePageReadWrite::new are in ndb::page: an     *)
(* entry is written as exactly ENTRY_SIZE bytes, the trailer as page type, *)
(* page type again, signature, then CRC and block id (Unicode) or block id *)
(* and CRC (ANSI).                                                         *)
(***************************************************************************)
UNICODE_BTREE_ENTRIES_SIZE == 488
ANSI_BTREE_ENTRIES_SIZE == 496

BTREE_ENTRIES_SIZE(unicode) ==
    IF unicode THEN UNICODE_BTREE_ENTRIES_SIZE ELSE ANSI_BTREE_ENTRIES_SIZE

\* the buffer of read and write: [0_u8; 496] (Unicode), [0_u8; 500] (ANSI)
BTreeBufferSize(unicode) == IF unicode THEN 496 ELSE 500

MAX_BTREE_ENTRIES(unicode, entry_size) == BTREE_ENTRIES_SIZE(unicode) \div entry_size

\* Entry::ENTRY_SIZE of the node / block tree leaf entries and of the
\* intermediate entries
BTreeEntrySizes(unicode) == IF unicode THEN {32, 24} ELSE {16, 12}

PageTypes == {"BlockBTree", "NodeBTree", "AllocationMap"}

PageTypeByte(page_type) ==
    CASE page_type = "BlockBTree" -> 128
      [] page_type = "NodeBTree" -> 129
      [] OTHER -> 132

PageTypeOf(byte) ==
    CASE byte = 128 -> "BlockBTree"
      [] byte = 129 -> "NodeBTree"
      [] byte = 132 -> "AllocationMap"
      [] OTHER -> "None"

PageTrailerSIZE(unicode) == IF unicode THEN 16 ELSE 12

PageTrailerBytes(unicode, trailer) ==
    <<PageTypeByte(trailer.page_type), PageTypeByte(trailer.page_type)>>
    \o LittleEndian(trailer.signature, 2)
    \o (IF unicode
        THEN LittleEndian(trailer.crc, 4) \o LittleEndian(trailer.block_id, 8)
        ELSE LittleEndian(trailer.block_id, 4) \o LittleEndian(trailer.crc, 4))

PageTrailerRead(unicode, f) ==
    LET read == read_exact(f, PageTrailerSIZE(unicode))
        field(from, to) == FromLittleEndian(SubSeq(read.bytes, from, to))
    IN  IF read.res # "Ok"
        THEN [res |-> read.res, trailer |-> PageTrailerNew("None", 0, 0, 0), f |-> f]
        ELSE IF read.bytes[1] # read.bytes[2] \/ PageTypeOf(read.bytes[1]) = "None"
        THEN [res |-> "InvalidPageType", trailer |-> PageTrailerNew("None", 0, 0, 0),
              f |-> read.f]
        ELSE [res |-> "Ok", f |-> read.f,
              trailer |-> PageTrailerNew(PageTypeOf(read.bytes[1]), field(3, 4),
                                         IF unicode THEN field(9, 16) ELSE field(5, 8),
                                         IF unicode THEN field(5, 8) ELSE field(9, 12))]

\* an entry is its key and the rest of its fields as one value
BTreeEntryDefault == [key |-> 0, value |-> 0]

BTreeEntryBytes(entry, entry_size) ==
    LittleEndian(entry.key, 4) \o LittleEndian(entry.value, entry_size - 4)

BTreeEntryRead(bytes) ==
    [key |-> FromLittleEndian(SubSeq(bytes, 1, 4)),
     value |-> FromLittleEndian(SubSeq(bytes, 5, Len(bytes)))]

\* BTreePageReadWrite::new(level, entries, trailer)
BTreePageNew(level, entries, trailer) ==
    [level |-> level, entries |-> entries, trailer |-> trailer]

NoPageBytes == BTreePageNew(0, <<>>, PageTrailerNew("None", 0, 0, 0))

PageResult(res, what, f, page) == [res |-> res, what |-> what, f |-> f, page |-> page]

\* the first check that fails, in the order of the code
FirstFailureReversed(checks) ==
    LET failed == {i \in 1..Len(checks) : ~checks[i].ok}
    IN  IF failed = {} THEN [ok |-> TRUE, res |-> "Ok", what |-> 0]
        ELSE checks[CHOOSE i \in failed : \A j \in failed : j <= i]

FirstFailure(checks) ==
    LET failed == {i \in 1..Len(checks) : ~checks[i].ok}
    IN  IF failed = {} THEN [ok |-> TRUE, res |-> "Ok", what |-> 0]
        ELSE checks[CHOOSE i \in failed : \A j \in failed : i <= j]

Check(ok, res, what) == [ok |-> ok, res |-> res, what |-> what]

\* UnicodeBTreePageReadWrite::read (136-194), AnsiBTreePageReadWrite::read
\* (253-305): the fields are read at BTREE_ENTRIES_SIZE
BTreePageRead(unicode, entry_size, f) ==
    LET max == MAX_BTREE_ENTRIES(unicode, entry_size)
        buffer == read_exact(f, BTreeBufferSize(unicode))
        at(i) == buffer.bytes[BTREE_ENTRIES_SIZE(unicode) + i]
        entry_count == at(1)
        max_entries == at(2)
        entry_size_read == at(3)
        level == at(4)
        padding == IF unicode THEN FromLittleEndian(SubSeq(buffer.bytes, 493, 496)) ELSE 0
        trailer == PageTrailerRead(unicode, buffer.f)
        crc == compute_crc(0, buffer.bytes)
        failure ==
            FirstFailure(<<
                Check(entry_count <= max, "InvalidBTreeEntryCount", entry_count),
                Check(max_entries = max, "InvalidBTreeEntryMaxCount", max_entries),
                Check(entry_size_read = entry_size, "InvalidBTreeEntrySize", entry_size_read),
                Check(level <= 8, "InvalidBTreePageLevel", level),
                Check(padding = 0, "InvalidBTreePagePadding", padding),
                Check(trailer.res = "Ok", trailer.res, 0),
                Check(trailer.trailer.page_type \in {"BlockBTree", "NodeBTree"},
                      "UnexpectedPageType", trailer.trailer.page_type),
                Check(crc = trailer.trailer.crc, "InvalidPageCrc", crc)>>)
        entries == [i \in 1..entry_count |->
                      BTreeEntryRead(SubSeq(buffer.bytes, (i - 1) * entry_size + 1,
                                            i * entry_size))]
    IN  IF buffer.res # "Ok" THEN PageResult(buffer.res, 0, f, NoPageBytes)
        ELSE IF ~failure.ok THEN PageResult(failure.res, failure.what, buffer.f, NoPageBytes)
        ELSE PageResult("Ok", 0, trailer.f, BTreePageNew(level, entries, trailer.trailer))

\* UnicodeBTreePageReadWrite::write (196-241), AnsiBTreePageReadWrite::write
\* (307-348)
BTreePageWrite(unicode, entry_size, page, f) ==
    LET max == MAX_BTREE_ENTRIES(unicode, entry_size)
        entry(i) == IF i <= Len(page.entries) THEN page.entries[i] ELSE BTreeEntryDefault
        rgentries == [j \in 1..(max * entry_size) |->
                        BTreeEntryBytes(entry((j - 1) \div entry_size + 1), entry_size)
                            [((j - 1) % entry_size) + 1]]
        fields == <<Len(page.entries) % 256, max % 256, entry_size % 256, page.level>>
                  \o (IF unicode THEN LittleEndian(0, 4) ELSE <<>>)
        zeroes == StreamOf([i \in 1..BTreeBufferSize(unicode) |-> 0])
        cursor == write_all(write_all(zeroes, rgentries), fields)
        buffer == [i \in 1..BTreeBufferSize(unicode) |-> ByteAt(cursor, i - 1)]
        crc == compute_crc(0, buffer)
        trailer == PageTrailerNew(page.trailer.page_type, page.trailer.signature,
                                  page.trailer.block_id, crc)
    IN  write_all(write_all(f, buffer), PageTrailerBytes(unicode, trailer))

(***************************************************************************)
(* B-tree pages in a file.  A page as the format lays it out: the entries, *)
(* zeroes up to BTREE_ENTRIES_SIZE, the four fields (and the padding) at   *)
(* BTREE_ENTRIES_SIZE, and the trailer with the CRC of all bytes before    *)
(* it.  Each stored field may be wrong.                                    *)
(***************************************************************************)
SampleEntries(n) == [i \in 1..n |-> [key |-> 2 * i + 1, value |-> 1000 + i]]

BTreePageImage(unicode, entry_size, entries, fields, padding, page_type, crc_ok) ==
    LET rgentries == [j \in 1..(Len(entries) * entry_size) |->
                        BTreeEntryBytes(entries[(j - 1) \div entry_size + 1], entry_size)
                            [((j - 1) % entry_size) + 1]]
        buffer == rgentries
                  \o [i \in 1..(BTREE_ENTRIES_SIZE(unicode) - Len(rgentries)) |-> 0]
                  \o fields
                  \o (IF unicode THEN LittleEndian(padding, 4) ELSE <<>>)
        crc == compute_crc(0, buffer)
    IN  buffer \o PageTrailerBytes(unicode,
                                   PageTrailerNew(page_type, 9, ExternalBlockId,
                                                  IF crc_ok THEN crc ELSE (crc + 1) % 65521))

\* what is wrong with a stored page: none, one or two of the seven
\* conditions, the four that are checked last, or all of them
PageFaultNames == {"count", "max", "size", "level", "padding", "page_type", "crc"}

BTreePageFaults ==
    {[count |-> "count" \in s, max |-> "max" \in s, size |-> "size" \in s,
      level |-> "level" \in s, padding |-> "padding" \in s,
      page_type |-> "page_type" \in s, crc |-> "crc" \in s] :
        s \in {t \in SUBSET PageFaultNames : \/ Cardinality(t) <= 2
                                             \/ t = PageFaultNames
                                             \/ t = {"level", "padding", "page_type", "crc"}}}

BTreePageReadCall(unicode, entry_size, n, page_type, fault) ==
    UnitCall("BTreePage::read",
             [unicode |-> unicode, entry_size |-> entry_size, entries |-> SampleEntries(n),
              level |-> IF n = 0 THEN 0 ELSE 8, page_type |-> page_type, fault |-> fault])

\* the file a BTreePage::read call reads: the page as stored, at the start
BTreePageReadFile(arg) ==
    LET max == MAX_BTREE_ENTRIES(arg.unicode, arg.entry_size)
        fields == <<IF arg.fault.count THEN max + 1 ELSE Len(arg.entries),
                    IF arg.fault.max THEN max - 1 ELSE max,
                    IF arg.fault.size THEN arg.entry_size + 4 ELSE arg.entry_size,
                    IF arg.fault.level THEN 9 ELSE arg.level>>
        padding == IF arg.fault.padding THEN 1 ELSE 0
        type == IF arg.fault.page_type THEN "AllocationMap" ELSE arg.page_type
    IN  StreamOf(BTreePageImage(arg.unicode, arg.entry_size, arg.entries, fields, padding,
                                type, ~arg.fault.crc))

BTreePageReadCalls ==
    {BTreePageReadCall(TRUE, es, n, t, x) :
        es \in BTreeEntrySizes(TRUE), n \in {0, 2}, t \in {"BlockBTree", "NodeBTree"},
        x \in BTreePageFaults}
    \cup {BTreePageReadCall(FALSE, es, n, t, x) :
        es \in BTreeEntrySizes(FALSE), n \in {0, 2}, t \in {"BlockBTree", "NodeBTree"},
        x \in {y \in BTreePageFaults : ~y.padding}}

\* a page to write, and the write followed by a read of the bytes written
BTreePageRoundTripCalls ==
    {UnitCall("BTreePage::write/read",
              [unicode |-> u, entry_size |-> es, entries |-> SampleEntries(n),
               level |-> level, page_type |-> t]) :
        u \in {TRUE}, es \in BTreeEntrySizes(TRUE), n \in {0, 1, 15}, level \in {0, 3, 8},
        t \in {"BlockBTree", "NodeBTree"}}
    \cup {UnitCall("BTreePage::write/read",
              [unicode |-> u, entry_size |-> es, entries |-> SampleEntries(n),
               level |-> level, page_type |-> t]) :
        u \in {FALSE}, es \in BTreeEntrySizes(FALSE), n \in {0, 1, 31}, level \in {0, 3, 8},
        t \in {"BlockBTree", "NodeBTree"}}

WriteThenReadPage(unicode, entry_size, level, entries, page_type) ==
    LET page == BTreePageNew(level, entries, PageTrailerNew(page_type, 9, ExternalBlockId, 0))
        written == BTreePageWrite(unicode, entry_size, page, StreamOf(<<>>))
    IN  [written |-> written,
         read |-> BTreePageRead(unicode, entry_size, seek_start(written, 0))]

(***************************************************************************)
(* Intermediate tree blocks: the data tree blocks (XBLOCK / XXBLOCK) and   *)
(* the sub-node tree blocks (SIBLOCK / SLBLOCK), block.rs 347-480 and      *)
(* 712-1034, read by IntermediateTreeBlockReadWrite::read (read_write.rs   *)
(* 452-487).  An entry is the record of a node id, a block id and a        *)
(* sub-node block id (0 for None); a data tree entry has only the block    *)
(* id.  A node id is its u32 value.                                        *)
(***************************************************************************)
TreeKinds == {"DataTree", "SubNodeIntermediate", "SubNodeLeaf"}

\* IntermediateTreeHeaderReadWrite::HEADER_SIZE
HEADER_SIZE(unicode, kind) == IF kind = "DataTree" \/ unicode THEN 8 ELSE 4

BlockIdSIZE(unicode) == IF unicode THEN 8 ELSE 4

\* IntermediateTreeEntryReadWrite::ENTRY_SIZE
ENTRY_SIZE(unicode, kind) ==
    CASE kind = "DataTree" -> IF unicode THEN 8 ELSE 4
      [] kind = "SubNodeIntermediate" -> IF unicode THEN 16 ELSE 8
      [] OTHER -> IF unicode THEN 24 ELSE 12

\* the block type byte: 0x01 for the data tree, 0x02 for the sub-node tree
TreeBlockType(kind) == IF kind = "DataTree" THEN 1 ELSE 2

TreeHeader(level, entry_count, total_size) ==
    [level |-> level, entry_count |-> entry_count, total_size |-> total_size]

NoTreeHeader == TreeHeader(0, 0, 0)

\* IntermediateTreeHeaderReadWrite::write
TreeHeaderBytes(unicode, kind, header) ==
    <<TreeBlockType(kind), header.level>> \o LittleEndian(header.entry_count, 2)
    \o (IF kind = "DataTree" THEN LittleEndian(header.total_size, 4)
        ELSE IF unicode THEN LittleEndian(0, 4) ELSE <<>>)

\* IntermediateTreeHeaderReadWrite::read
TreeHeaderRead(unicode, kind, f) ==
    LET type == read_exact(f, 1)
        rest == read_exact(type.f, HEADER_SIZE(unicode, kind) - 1)
        tail == IF HEADER_SIZE(unicode, kind) = 8
                THEN FromLittleEndian(SubSeq(rest.bytes, 4, 7)) ELSE 0
    IN  IF type.res # "Ok" THEN [res |-> type.res, what |-> 0, header |-> NoTreeHeader, f |-> f]
        ELSE IF type.bytes[1] # TreeBlockType(kind)
        THEN [res |-> "InvalidInternalBlockType", what |-> type.bytes[1],
              header |-> NoTreeHeader, f |-> type.f]
        ELSE IF rest.res # "Ok"
        THEN [res |-> rest.res, what |-> 0, header |-> NoTreeHeader, f |-> type.f]
        ELSE IF kind # "DataTree" /\ tail # 0
        THEN [res |-> "InvalidSubNodeBlockPadding", what |-> tail, header |-> NoTreeHeader,
              f |-> rest.f]
        ELSE [res |-> "Ok", what |-> 0, f |-> rest.f,
              header |-> TreeHeader(rest.bytes[1], FromLittleEndian(SubSeq(rest.bytes, 2, 3)),
                                    IF kind = "DataTree" THEN tail ELSE 0)]

TreeEntry(node, block, sub_node) == [node |-> node, block |-> block, sub_node |-> sub_node]

\* IntermediateTreeEntryReadWrite::write
TreeEntryBytes(unicode, kind, entry) ==
    (IF kind = "DataTree" THEN <<>> ELSE LittleEndian(entry.node, BlockIdSIZE(unicode)))
    \o LittleEndian(entry.block, BlockIdSIZE(unicode))
    \o (IF kind = "SubNodeLeaf" THEN LittleEndian(entry.sub_node, BlockIdSIZE(unicode))
        ELSE <<>>)

\* IntermediateTreeEntryReadWrite::read; the Unicode node id is the low 32
\* bits of a u64
TreeEntryRead(unicode, kind, bytes) ==
    LET n == BlockIdSIZE(unicode)
        field(i) == FromLittleEndian(SubSeq(bytes, (i - 1) * n + 1, i * n))
    IN  CASE kind = "DataTree" -> TreeEntry(0, field(1), 0)
          [] kind = "SubNodeIntermediate" ->
                TreeEntry(FromLittleEndian(SubSeq(bytes, 1, 4)), field(2), 0)
          [] OTHER -> TreeEntry(FromLittleEndian(SubSeq(bytes, 1, 4)), field(2), field(3))

NoTreeBlock == [header |-> NoTreeHeader, entries |-> <<>>, trailer |-> NoBlockTrailer]

\* DataTreeBlockInner::new, SubNodeTreeBlock::new
TreeBlockNew(unicode, header, entries, trailer) ==
    LET verified == verify_block_id(unicode, trailer, TRUE)
    IN  IF verified.res # "Ok"
        THEN [res |-> verified.res, what |-> verified.what, block |-> NoTreeBlock]
        ELSE [res |-> "Ok", what |-> 0,
              block |-> [header |-> header, entries |-> entries, trailer |-> trailer]]

\* u16 multiplication: a panic when overflow is checked, else the wrapped value
U16Mul(a, b, overflow_checks) ==
    IF a * b < 65536 THEN [res |-> "Ok", value |-> a * b]
    ELSE IF overflow_checks THEN [res |-> "abort", value |-> 0]
    ELSE [res |-> "Ok", value |-> (a * b) % 65536]

\* IntermediateTreeBlockReadWrite::read (read_write.rs 452-487): the data
\* is read from f, the header and the entries from the data, and the seek
\* to the trailer starts from the end of the data
TreeBlockRead(unicode, kind, f, size, overflow_checks) ==
    LET data == read_exact(f, size)
        header == TreeHeaderRead(unicode, kind, StreamOf(data.bytes))
        entry_count == header.header.entry_count
        entry_size == ENTRY_SIZE(unicode, kind)
        used == U16Mul(entry_count, entry_size, overflow_checks)
        room == U16Sub(size, HEADER_SIZE(unicode, kind), overflow_checks)
        entries == [i \in 1..entry_count |->
                      TreeEntryRead(unicode, kind,
                                    SubSeq(data.bytes,
                                           HEADER_SIZE(unicode, kind) + (i - 1) * entry_size + 1,
                                           HEADER_SIZE(unicode, kind) + i * entry_size))]
        offset == U16Sub(block_size(size + TrailerSIZE(unicode)),
                         HEADER_SIZE(unicode, kind) + used.value, overflow_checks)
        sought == IF offset.value > 0 THEN seek_current(data.f, offset.value) ELSE data.f
        read == BlockTrailerRead(unicode, sought)
        trailer == read.trailer
        verified == verify_block_id(unicode, trailer, TRUE)
        crc == compute_crc(0, data.bytes)
        block == TreeBlockNew(unicode, header.header, entries, trailer)
        Fail(res, what, at) == [res |-> res, what |-> what, f |-> at, block |-> NoTreeBlock]
    IN  IF data.res # "Ok" THEN Fail(data.res, 0, f)
        ELSE IF header.res # "Ok" THEN Fail(header.res, header.what, data.f)
        ELSE IF used.res # "Ok" \/ room.res # "Ok" THEN Fail("abort", 0, data.f)
        ELSE IF used.value > room.value
        THEN Fail("InvalidInternalBlockEntryCount", entry_count, data.f)
        ELSE IF HEADER_SIZE(unicode, kind) + entry_count * entry_size > size
        THEN Fail("UnexpectedEof", 0, data.f)
        ELSE IF offset.res # "Ok" THEN Fail("abort", 0, data.f)
        ELSE IF read.res # "Ok" THEN Fail(read.res, read.what, read.f)
        ELSE IF verified.res # "Ok" THEN Fail(verified.res, verified.what, read.f)
        ELSE IF crc # trailer.crc THEN Fail("InvalidBlockCrc", crc, read.f)
        ELSE [res |-> block.res, what |-> block.what, f |-> read.f, block |-> block.block]

(***************************************************************************)
(* Intermediate tree blocks in a file: the header and the entries, zero    *)
(* padding, and the trailer in the last bytes of the footprint             *)
(* block_size(size + trailer size).  In the layout "behind" the same       *)
(* trailer lies once more behind the footprint, as the first bytes of what *)
(* follows the block in the file.                                          *)
(***************************************************************************)
TreeFaults == {"none", "external", "crc"}

TreeLayouts == {"footprint", "behind"}

SampleTreeEntries(kind, n) ==
    [i \in 1..n |-> TreeEntry(IF kind = "DataTree" THEN 0 ELSE 32 * i + 1,
                              IF kind = "SubNodeIntermediate" THEN InternalBlockId + 4 * i
                              ELSE ExternalBlockId + 4 * i,
                              0)]

RECURSIVE Flatten(_)
Flatten(seqs) == IF seqs = <<>> THEN <<>> ELSE Head(seqs) \o Flatten(Tail(seqs))

TreeBlockData(unicode, kind, level, entries) ==
    TreeHeaderBytes(unicode, kind, TreeHeader(level, Len(entries), 0))
    \o Flatten([i \in 1..Len(entries) |-> TreeEntryBytes(unicode, kind, entries[i])])

TreeBlockOnDisk(unicode, kind, level, entries, block_id, fault, layout) ==
    LET data == TreeBlockData(unicode, kind, level, entries)
        size == Len(data)
        footprint == block_size(size + TrailerSIZE(unicode))
        trailer == BlockTrailerBytes(unicode,
                       [size |-> size, signature |-> 7,
                        crc |-> IF fault = "crc" THEN (compute_crc(0, data) + 1) % 65521
                                ELSE compute_crc(0, data),
                        block_id |-> IF fault = "external" THEN block_id - 2 ELSE block_id])
    IN  data \o [i \in 1..(footprint - size - TrailerSIZE(unicode)) |-> 0] \o trailer
        \o (IF layout = "behind" THEN trailer ELSE <<>>)

TreeBlockReadCalls ==
    {UnitCall("TreeBlock::read",
              [unicode |-> u, kind |-> k, level |-> 1, entries |-> SampleTreeEntries(k, n),
               size |-> HEADER_SIZE(u, k) + n * ENTRY_SIZE(u, k), overflow_checks |-> c,
               fault |-> x, layout |-> l, block_id |-> InternalBlockId]) :
        u \in BOOLEAN, k \in TreeKinds, n \in {0, 1, 3, 7}, c \in BOOLEAN, x \in TreeFaults,
        l \in TreeLayouts}

\* the file a TreeBlock::read call reads: the block as stored, at the start
TreeBlockReadFile(arg) ==
    StreamOf(TreeBlockOnDisk(arg.unicode, arg.kind, arg.level, arg.entries, arg.block_id,
                             arg.fault, arg.layout))

(***************************************************************************)
(* Trees of blocks.  The block B-tree (ndb::page) is the function from a   *)
(* block id, as From<BlockId> gives it, to the entry (the offset of the    *)
(* block and its size) it holds for that id; a lookup of an id it does not *)
(* hold fails.                                                             *)
(***************************************************************************)
BlockBTreeEntry(block, index, size) == [block |-> block, index |-> index, size |-> size]

BlockBTreeFindEntry(block_btree, key) ==
    IF key \in DOMAIN block_btree
    THEN [res |-> "Ok", what |-> 0, entry |-> block_btree[key]]
    ELSE [res |-> "EntryNotFound", what |-> key, entry |-> BlockBTreeEntry(0, 0, 0)]

\* the footprint of a block, read into a Cursor (block.rs 594-599, 1043-1048)
ReadFootprint(unicode, f, entry) ==
    read_exact(seek_start(f, entry.index), block_size(entry.size + TrailerSIZE(unicode)))

SubNodeTree(kind, block) == [kind |-> kind, block |-> block]

\* the result of the block read, as a tree of that kind
SubNodeTreeOf(kind, block) ==
    [res |-> block.res, what |-> block.what, tree |-> SubNodeTree(kind, block.block)]

\* the steps after the header is read from the cursor: the kind is taken
\* from the header's level, and the block is read from the cursor's start
SubNodeTreeReadBlock(unicode, cursor, header, entry, overflow_checks) ==
    LET kind == IF header.header.level > 0 THEN "SubNodeIntermediate" ELSE "SubNodeLeaf"
    IN  IF header.res # "Ok"
        THEN [res |-> header.res, what |-> header.what,
              tree |-> SubNodeTree(kind, NoTreeBlock)]
        ELSE SubNodeTreeOf(kind, TreeBlockRead(unicode, kind, seek_start(cursor, 0),
                                               entry.size, overflow_checks))

\* UnicodeSubNodeTree::read, AnsiSubNodeTree::read (block.rs 1042-1060,
\* 1137-1154)
SubNodeTreeRead(unicode, f, entry, overflow_checks) ==
    LET data == ReadFootprint(unicode, f, entry)
    IN  IF data.res # "Ok"
        THEN [res |-> data.res, what |-> 0, tree |-> SubNodeTree("SubNodeLeaf", NoTreeBlock)]
        ELSE SubNodeTreeReadBlock(unicode, StreamOf(data.bytes),
                                  TreeHeaderRead(unicode, "SubNodeLeaf",
                                                 StreamOf(data.bytes)),
                                  entry, overflow_checks)

\* entries.iter().take_while(|entry| entry.node() <= node).last(): the index
\* of the last entry of the longest prefix whose node ids are all <= node,
\* 0 when the prefix is empty
TakeWhileFirst(entries, node) ==
    IF entries # <<>> /\ entries[1].node <= node THEN 1 ELSE 0

TakeWhileLast(entries, node) ==
    LET prefixes == {k \in 0..Len(entries) : \A i \in 1..k : entries[i].node <= node}
    IN  CHOOSE k \in prefixes : \A j \in prefixes : j <= k

\* entries.iter().find(|entry| entry.node() == node): the index of the first
\* entry with that node id, 0 when there is none
FindNode(entries, node) ==
    LET hits == {i \in 1..Len(entries) : entries[i].node = node}
    IN  IF hits = {} THEN 0 ELSE CHOOSE i \in hits : \A j \in hits : i <= j

\* UnicodeSubNodeTree::find_entry, AnsiSubNodeTree::find_entry (block.rs
\* 1075-1103, 1165-1193); `visited` lists the keys looked up in the block
\* B-tree on the way
RECURSIVE find_entry(_, _, _, _, _, _)
\* the ? on the read of the child, and the search in the child
FindBelow(unicode, key, page, f, block_btree, node, overflow_checks) ==
    LET found == find_entry(unicode, page.tree, f, block_btree, node, overflow_checks)
    IN  IF page.res # "Ok"
        THEN [res |-> page.res, what |-> page.what, block |-> 0, visited |-> <<key>>]
        ELSE [found EXCEPT !.visited = <<key>> \o found.visited]

find_entry(unicode, tree, f, block_btree, node, overflow_checks) ==
    LET entries == tree.block.entries
        Fail(res, what, visited) ==
            [res |-> res, what |-> what, block |-> 0, visited |-> visited]
    IN  IF tree.kind = "SubNodeIntermediate"
        THEN LET at == TakeWhileLast(entries, node)
                 key == BlockIdInto(entries[at].block)
                 block == BlockBTreeFindEntry(block_btree, key)
             IN  IF at = 0 THEN Fail("SubNodeNotFound", node, <<>>)
                 ELSE IF block.res # "Ok" THEN Fail(block.res, block.what, <<key>>)
                 ELSE FindBelow(unicode, key,
                                SubNodeTreeRead(unicode, f, block.entry, overflow_checks),
                                f, block_btree, node, overflow_checks)
        ELSE LET at == FindNode(entries, node)
             IN  IF at = 0 THEN Fail("SubNodeNotFound", node, <<>>)
                 ELSE [res |-> "Ok", what |-> 0, block |-> entries[at].block,
                       visited |-> <<>>]

(***************************************************************************)
(* Sub-node trees to search: a leaf block, or an intermediate block whose  *)
(* children are leaf blocks in the file, each in its footprint at the      *)
(* offset the block B-tree gives for it.  Node ids 33 and 34 differ only   *)
(* in their type bits; 65 appears twice.                                   *)
(***************************************************************************)
FootprintStride == 8 * 64

SubNodeLeafEntries(first) ==
    <<TreeEntry(first, ExternalBlockId + 4, 0),
      TreeEntry(first + 1, ExternalBlockId + 8, 0),
      TreeEntry(first + 32, ExternalBlockId + 12, 0),
      TreeEntry(first + 32, ExternalBlockId + 16, 0)>>

\* the i-th child of the root: a leaf block whose first node id is the
\* node id of the root's i-th entry
SubNodeChildren == <<SubNodeLeafEntries(33), SubNodeLeafEntries(97), SubNodeLeafEntries(161)>>

SubNodeRootEntries ==
    [i \in 1..Len(SubNodeChildren) |->
        TreeEntry(SubNodeChildren[i][1].node, InternalBlockId + 4 * i, 0)]

SubNodeFile(unicode) ==
    StreamOf(Flatten([i \in 1..Len(SubNodeChildren) |->
        LET image == TreeBlockOnDisk(unicode, "SubNodeLeaf", 0, SubNodeChildren[i],
                                     InternalBlockId + 4 * i, "none", "footprint")
        IN  image \o [j \in 1..(FootprintStride - Len(image)) |-> 0]]))

\* the block B-tree of the file; `missing` is the child it does not hold
\* (0 for none)
SubNodeBlockBTree(unicode, missing) ==
    [key \in {BlockIdInto(InternalBlockId + 4 * i) :
                i \in (1..Len(SubNodeChildren)) \ {missing}} |->
        LET i == (key - BlockIdInto(InternalBlockId)) \div 4
        IN  BlockBTreeEntry(InternalBlockId + 4 * i, (i - 1) * FootprintStride,
                            HEADER_SIZE(unicode, "SubNodeLeaf")
                            + Len(SubNodeChildren[i]) * ENTRY_SIZE(unicode, "SubNodeLeaf"))]

SubNodeTargets == {1, 33, 34, 35, 65, 66, 96, 97, 98, 129, 161, 193, 200}

FindEntryCalls ==
    {UnitCall("SubNodeTree::find_entry",
              [unicode |-> u, overflow_checks |-> c, node |-> n,
               tree |-> SubNodeTree("SubNodeLeaf",
                                    [header |-> TreeHeader(0, 4, 0),
                                     entries |-> SubNodeLeafEntries(first),
                                     trailer |-> NoBlockTrailer]),
               block_btree |-> SubNodeBlockBTree(u, 0)]) :
        u \in BOOLEAN, c \in BOOLEAN, n \in SubNodeTargets, first \in {33, 97}}
    \cup
    {UnitCall("SubNodeTree::find_entry",
              [unicode |-> u, overflow_checks |-> c, node |-> n,
               tree |-> SubNodeTree("SubNodeIntermediate",
                                    [header |-> TreeHeader(1, Len(SubNodeRootEntries), 0),
                                     entries |-> SubNodeRootEntries,
                                     trailer |-> NoBlockTrailer]),
               block_btree |-> SubNodeBlockBTree(u, missing)]) :
        u \in BOOLEAN, c \in BOOLEAN, n \in SubNodeTargets, missing \in {0, 2}}

(***************************************************************************)
(* Data trees (block.rs 583-710): a leaf data block, or an intermediate    *)
(* block whose entries name the blocks below it.                           *)
(***************************************************************************)
DataTree(kind, block) == [kind |-> kind, block |-> block]

\* the result of the block read, as a tree of that kind
DataTreeOf(kind, read) ==
    [res |-> read.res, what |-> read.what, tree |-> DataTree(kind, read.block)]

\* the steps of an internal block after the header is read from the cursor
DataTreeReadBlock(unicode, cursor, header, entry, overflow_checks) ==
    IF header.res # "Ok"
    THEN [res |-> header.res, what |-> header.what, tree |-> DataTree("Leaf", NoBlock)]
    ELSE DataTreeOf("Intermediate",
                    TreeBlockRead(unicode, "DataTree", seek_start(cursor, 0), entry.size,
                                  overflow_checks))

\* UnicodeDataTree::read, AnsiDataTree::read (block.rs 589-610, 655-676)
DataTreeRead(unicode, f, encoding, entry, overflow_checks) ==
    LET data == ReadFootprint(unicode, f, entry)
    IN  IF data.res # "Ok"
        THEN [res |-> data.res, what |-> 0, tree |-> DataTree("Leaf", NoBlock)]
        ELSE IF is_internal(entry.block)
        THEN DataTreeReadBlock(unicode, StreamOf(data.bytes),
                               TreeHeaderRead(unicode, "DataTree", StreamOf(data.bytes)),
                               entry, overflow_checks)
        ELSE DataTreeOf("Leaf",
                        DataBlockRead(unicode, StreamOf(data.bytes), entry.size, encoding,
                                      overflow_checks))

\* .collect::<io::Result<Vec<_>>>() and flatten: the first failure, or the
\* blocks of all results in order
CollectWithoutFailures(results) ==
    [res |-> "Ok", what |-> 0,
     blocks |-> Flatten([i \in 1..Len(results) |->
                            IF results[i].res = "Ok" THEN results[i].blocks ELSE <<>>])]

Collect(results) ==
    LET failed == {i \in 1..Len(results) : results[i].res # "Ok"}
        first == CHOOSE i \in failed : \A j \in failed : i <= j
    IN  IF failed = {}
        THEN [res |-> "Ok", what |-> 0,
              blocks |-> Flatten([i \in 1..Len(results) |-> results[i].blocks])]
        ELSE [res |-> results[first].res, what |-> results[first].what, blocks |-> <<>>]

\* UnicodeDataTree::blocks, AnsiDataTree::blocks (block.rs 625-646, 687-708)
RECURSIVE blocks(_, _, _, _, _, _)
\* the closure's last two steps: the ? on the child read, and the blocks of
\* the child
ChildBlocks(unicode, data_tree, f, encoding, block_btree, overflow_checks) ==
    IF data_tree.res # "Ok"
    THEN [res |-> data_tree.res, what |-> data_tree.what, blocks |-> <<>>]
    ELSE blocks(unicode, data_tree.tree, f, encoding, block_btree, overflow_checks)

blocks(unicode, tree, f, encoding, block_btree, overflow_checks) ==
    LET Child(entry) ==
            LET data_block == BlockBTreeFindEntry(block_btree, BlockIdInto(entry.block))
            IN  IF data_block.res # "Ok"
                THEN [res |-> data_block.res, what |-> data_block.what, blocks |-> <<>>]
                ELSE ChildBlocks(unicode,
                                 DataTreeRead(unicode, f, encoding, data_block.entry,
                                              overflow_checks),
                                 f, encoding, block_btree, overflow_checks)
    IN  IF tree.kind = "Intermediate"
        THEN Collect([i \in 1..Len(tree.block.entries) |-> Child(tree.block.entries[i])])
        ELSE [res |-> "Ok", what |-> 0, blocks |-> <<tree.block>>]

(***************************************************************************)
(* Data trees to traverse.  The file holds four leaf data blocks (ids 1 to *)
(* 4, with payloads of different sizes) and one intermediate block (id 5)  *)
(* over the leaves 1 and 2, each in its footprint at the offset the block  *)
(* B-tree gives for it.  Leaf 4 has a payload size for which the leaf read *)
(* does not find the trailer; a leaf may be missing from the block B-tree  *)
(* or be stored with a wrong CRC.                                          *)
(***************************************************************************)
LeafId(i) == ExternalBlockId + 4 * i

LeafSize(i) == IF i = 4 THEN 56 ELSE 8 * i

InnerId == InternalBlockId + 4 * 5

InnerEntries == <<TreeEntry(0, LeafId(1), 0), TreeEntry(0, LeafId(2), 0)>>

DataTreeFile(unicode, encoding, corrupt) ==
    LET image(i) ==
            IF i = 5
            THEN TreeBlockOnDisk(unicode, "DataTree", 1, InnerEntries, InnerId, "none",
                                 "footprint")
            ELSE BlockOnDisk(unicode, encoding, SampleData(LeafSize(i)), 7, LeafId(i),
                             IF i = corrupt THEN "crc" ELSE "none")
    IN  StreamOf(Flatten([i \in 1..5 |->
            image(i) \o [j \in 1..(FootprintStride - Len(image(i))) |-> 0]]))

DataTreeBlockBTree(unicode, missing) ==
    [key \in {BlockIdInto(LeafId(i)) : i \in (1..4) \ {missing}} \cup {BlockIdInto(InnerId)} |->
        IF key = BlockIdInto(InnerId)
        THEN BlockBTreeEntry(InnerId, 4 * FootprintStride,
                             HEADER_SIZE(unicode, "DataTree")
                             + Len(InnerEntries) * ENTRY_SIZE(unicode, "DataTree"))
        ELSE LET i == (key - BlockIdInto(ExternalBlockId)) \div 4
             IN  BlockBTreeEntry(LeafId(i), (i - 1) * FootprintStride, LeafSize(i))]

\* the roots: the leaf 3 as read from the file, and intermediate blocks
\* over the blocks named, in that order
DataTreeRoots == {<<>>, <<1>>, <<2, 1, 3>>, <<3, 3, 1>>, <<1, 4>>, <<3, 5>>, <<5>>}

DataTreeRoot(unicode, encoding, names) ==
    IF names = <<>>
    THEN DataTree("Leaf",
                  [encoding |-> encoding, data |-> SampleData(LeafSize(3)),
                   trailer |-> [size |-> LeafSize(3), signature |-> 7, crc |-> 0,
                                block_id |-> LeafId(3)]])
    ELSE DataTree("Intermediate",
                  [header |-> TreeHeader(IF 5 \in {names[i] : i \in 1..Len(names)}
                                         THEN 2 ELSE 1, Len(names), 0),
                   entries |-> [i \in 1..Len(names) |->
                                   TreeEntry(0, IF names[i] = 5 THEN InnerId
                                                ELSE LeafId(names[i]), 0)],
                   trailer |-> NoBlockTrailer])

BlocksCalls ==
    {UnitCall("DataTree::blocks",
              [unicode |-> u, encoding |-> e, overflow_checks |-> c, names |-> names,
               missing |-> missing, corrupt |-> corrupt,
               tree |-> DataTreeRoot(u, e, names),
               block_btree |-> DataTreeBlockBTree(u, missing)]) :
        u \in BOOLEAN, e \in CryptMethods, c \in BOOLEAN, names \in DataTreeRoots,
        missing \in {0, 1}, corrupt \in {0, 3}}

(***************************************************************************)
(* The steps of the rebuild taken one at a time: the closure that builds   *)
(* the AMap page of an index (lib.rs 319-367).                             *)
(***************************************************************************)
\* the indexes tried: around the first PMap, FMap and FPMap slots and the
\* second FMap slot
SampleAmapIndexes ==
    {0, 1, 7, 8, 9, 16, 120, 127, 128, 129, 136, 616, 624, 625, 632, 1120,
     8184, 8191, 8192, 8193, 8200}

AmapPageCalls ==
    {UnitCall("rebuild_allocation_map::amap_page", [index |-> i]) : i \in SampleAmapIndexes}

(***************************************************************************)
(* mark_page_allocation called on its own, on the AMap pages of a file of  *)
(* two AMap pages as the closure builds them.                              *)
(***************************************************************************)
\* the offsets tried, by AMap page and by distance from the page's start:
\* the page's own slot, a slot on a byte boundary, slots that start inside
\* a byte, an offset that is no multiple of 64, the last slot on a byte
\* boundary and starts inside the last byte
SampleMarkOffsets ==
    {AMAP_FIRST_OFFSET + k * AMAP_DATA_SIZE + d :
        k \in {0, 1},
        d \in {0, 1024, 1024 + 64, 1024 + 100, 1024 + 7 * 64, 8 * 512 + 3 * 64,
               AMAP_DATA_SIZE - 512, AMAP_DATA_SIZE - 512 + 64, AMAP_DATA_SIZE - 64,
               AMAP_DATA_SIZE - 1}}

MarkPageCalls ==
    {UnitCall("mark_page_allocation",
              [index |-> at, overflow_checks |-> c,
               amap_pages |-> [i \in 0..1 |-> NewAllocationMapPageInfo(i)]]) :
        at \in SampleMarkOffsets, c \in BOOLEAN}

(***************************************************************************)
(* The map pages a rebuild over num_amap_pages AMap pages writes (lib.rs   *)
(* 474-510), one at a time: the page, the offset the writer seeks to (the  *)
(* block id of the page's trailer) and the AMap page that covers that      *)
(* offset, as the closure builds it.                                       *)
(***************************************************************************)
MapPageCount(page_type, num_amap_pages) ==
    CASE page_type = "AllocationMap" -> num_amap_pages
      [] page_type = "AllocationPageMap" -> PmapPageCount(num_amap_pages)
      [] page_type = "FreeMap" -> FmapPageCount(num_amap_pages)
      [] OTHER -> FpmapPageCount(num_amap_pages)

MapPageWritten(page_type, index) ==
    CASE page_type = "AllocationMap" -> NewAllocationMapPageInfo(index).amap_page
      [] page_type = "AllocationPageMap" -> NewPmapPage(index)
      [] page_type = "FreeMap" -> NewFmapPage(index)
      [] OTHER -> NewFpmapPage(index)

MapPageWrite(num_amap_pages, page_type, index) ==
    LET page == MapPageWritten(page_type, index)
        at == BlockIdInto(page.trailer.block_id)
        covering == (at - AMAP_FIRST_OFFSET) \div AMAP_DATA_SIZE
    IN  [at |-> at, page |-> page, covering |-> covering,
         amap_pages |-> IF covering < num_amap_pages
                        THEN (covering :> NewAllocationMapPageInfo(covering))
                        ELSE NoAmapPages]

\* page counts at which one more PMap, FMap or FPMap page appears
SampleAmapPageCounts == {1, 9, 130, 624, 1120, 8193, 39936, 39937}

\* page indexes whose offsets are below 2^31
SampleMapPageIndexes(page_type) ==
    CASE page_type = "AllocationMap" -> {0, 1, 8, 128, 624, 8192}
      [] page_type = "AllocationPageMap" -> {0, 1, 16, 78, 1024}
      [] page_type = "FreeMap" -> {0, 1, 16}
      [] OTHER -> {0}

MapPageWriteCalls ==
    UNION {{UnitCall("rebuild_allocation_map::write_page",
                     [num_amap_pages |-> n, page_type |-> t, index |-> i]) :
               i \in {j \in SampleMapPageIndexes(t) : j < MapPageCount(t, n)}} :
           n \in SampleAmapPageCounts,
           t \in {"AllocationMap", "AllocationPageMap", "FreeMap", "FreePageMap"}}

(***************************************************************************)
(* IntermediateTreeBlockReadWrite::write (read_write.rs 489-518): the      *)
(* header and the entries, a seek over the gap up to the trailer's place   *)
(* in the footprint, and the trailer, built anew with the size and the CRC *)
(* of the data.                                                            *)
(***************************************************************************)
TreeBlockWrite(unicode, kind, block, f) ==
    LET data == TreeHeaderBytes(unicode, kind, block.header)
                \o Flatten([i \in 1..Len(block.entries) |->
                               TreeEntryBytes(unicode, kind, block.entries[i])])
        crc == compute_crc(0, data)
        trailer == BlockTrailerNew(unicode, Len(data), block.trailer.signature, crc,
                                   block.trailer.block_id)
        offset == trailer.trailer.size + TrailerSIZE(unicode)
        gap == block_size(offset) - offset
        sought == seek_current(write_all(f, data), gap)
    IN  IF trailer.res # "Ok" THEN [res |-> trailer.res, what |-> trailer.what, f |-> f]
        ELSE [res |-> "Ok", what |-> 0,
              f |-> BlockTrailerWrite(unicode, trailer.trailer, sought)]

\* a tree block to write, and the write followed by a read from the same
\* position with the size of the written data
TreeBlockRoundTripCalls ==
    {UnitCall("TreeBlock::write/read",
              [unicode |-> u, kind |-> k, level |-> 1, entries |-> SampleTreeEntries(k, n),
               size |-> HEADER_SIZE(u, k) + n * ENTRY_SIZE(u, k), overflow_checks |-> c,
               signature |-> 7, block_id |-> InternalBlockId]) :
        u \in BOOLEAN, k \in TreeKinds, n \in {0, 1, 3, 7}, c \in BOOLEAN}

TreeWriteThenRead(unicode, kind, level, entries, signature, block_id, overflow_checks) ==
    LET header == TreeHeader(level, Len(entries), 0)
        size == HEADER_SIZE(unicode, kind) + Len(entries) * ENTRY_SIZE(unicode, kind)
        trailer == BlockTrailerNew(unicode, size, signature, 0, block_id)
        block == TreeBlockNew(unicode, header, entries, trailer.trailer)
        written == TreeBlockWrite(unicode, kind, block.block, StreamOf(<<>>))
    IN  [write |-> written,
         read |-> IF written.res = "Ok"
                  THEN TreeBlockRead(unicode, kind, seek_start(written.f, 0), size,
                                     overflow_checks)
                  ELSE [res |-> "none", what |-> 0, f |-> written.f, block |-> NoTreeBlock]]

\* a tree block whose header holds any entry count: the data of `size` bytes
\* (the header, then zeroes), zero padding and a trailer in the last bytes of
\* the footprint
SampleEntryCounts == {0, 1, 2, 3, 4, 5, 13, 2731, 5461, 8191, 8192, 8193, 10923, 65535}

TreeBlockHeaderCalls ==
    {UnitCall("TreeBlock::read header",
              [unicode |-> u, kind |-> k, size |-> s, entry_count |-> n,
               overflow_checks |-> c]) :
        u \in BOOLEAN, k \in TreeKinds, s \in {8, 12, 32, 104}, n \in SampleEntryCounts,
        c \in BOOLEAN}

TreeBlockHeaderFile(arg) ==
    LET header == TreeHeaderBytes(arg.unicode, arg.kind, TreeHeader(1, arg.entry_count, 0))
        data == header \o [i \in 1..(arg.size - Len(header)) |-> 0]
        footprint == block_size(arg.size + TrailerSIZE(arg.unicode))
        trailer == BlockTrailerBytes(arg.unicode,
                       [size |-> arg.size, signature |-> 7, crc |-> compute_crc(0, data),
                        block_id |-> InternalBlockId])
    IN  StreamOf(data \o [i \in 1..(footprint - arg.size - TrailerSIZE(arg.unicode)) |-> 0]
                 \o trailer)

(***************************************************************************)
(* The Root as bytes (RootReadWrite::read / write, read_write.rs 56-91):   *)
(* reserved1 (u32), the four indexes, the two B-tree references (block id, *)
(* then byte index), the status byte, reserved2 (u8) and reserved3 (u16),  *)
(* every integer little-endian; an index and a block id take 8 bytes in a  *)
(* Unicode file and 4 in an ANSI file.                                     *)
(***************************************************************************)
RootSIZE(unicode) == 4 + 8 * BlockIdSIZE(unicode) + 1 + 1 + 2

\* BlockRefReadWrite::write with the byte index first
BlockRefBytesIndexFirst(unicode, ref) ==
    LittleEndian(ref.index, BlockIdSIZE(unicode))
    \o LittleEndian(ref.block, BlockIdSIZE(unicode))

\* BlockRefReadWrite::write
BlockRefBytes(unicode, ref) ==
    LittleEndian(ref.block, BlockIdSIZE(unicode))
    \o LittleEndian(ref.index, BlockIdSIZE(unicode))

\* BlockRefReadWrite::read, from the bytes of the reference
BlockRefFromBytes(unicode, bytes) ==
    LET n == BlockIdSIZE(unicode)
    IN  [block |-> FromLittleEndian(SubSeq(bytes, 1, n)),
         index |-> FromLittleEndian(SubSeq(bytes, n + 1, 2 * n))]

NoRootBytes ==
    [reserved1 |-> 0, file_eof_index |-> 0, amap_last_index |-> 0, amap_free_size |-> 0,
     pmap_free_size |-> 0, node_btree |-> [block |-> 0, index |-> 0],
     block_btree |-> [block |-> 0, index |-> 0], amap_is_valid |-> "Invalid",
     reserved2 |-> 0, reserved3 |-> 0]

\* RootReadWrite::read
RootReadBytes(unicode, f) ==
    LET n == BlockIdSIZE(unicode)
        data == read_exact(f, RootSIZE(unicode))
        field(from, size) == FromLittleEndian(SubSeq(data.bytes, from + 1, from + size))
        status == AmapStatusTryFrom(data.bytes[4 + 8 * n + 1])
    IN  IF data.res # "Ok" THEN [res |-> data.res, root |-> NoRootBytes]
        ELSE [res |-> "Ok",
              root |-> [reserved1 |-> field(0, 4),
                        file_eof_index |-> field(4, n),
                        amap_last_index |-> field(4 + n, n),
                        amap_free_size |-> field(4 + 2 * n, n),
                        pmap_free_size |-> field(4 + 3 * n, n),
                        node_btree |-> BlockRefFromBytes(unicode,
                            SubSeq(data.bytes, 4 + 4 * n + 1, 4 + 6 * n)),
                        block_btree |-> BlockRefFromBytes(unicode,
                            SubSeq(data.bytes, 4 + 6 * n + 1, 4 + 8 * n)),
                        amap_is_valid |-> IF status = "Err" THEN "Invalid" ELSE status,
                        reserved2 |-> field(4 + 8 * n + 1, 1),
                        reserved3 |-> field(4 + 8 * n + 2, 2)]]

\* RootReadWrite::write
RootWriteBytes(unicode, root) ==
    LET n == BlockIdSIZE(unicode)
    IN  LittleEndian(root.reserved1, 4)
        \o LittleEndian(root.file_eof_index, n)
        \o LittleEndian(root.amap_last_index, n)
        \o LittleEndian(root.amap_free_size, n)
        \o LittleEndian(root.pmap_free_size, n)
        \o BlockRefBytes(unicode, root.node_btree)
        \o BlockRefBytes(unicode, root.block_btree)
        \o <<AmapStatusAsU8(root.amap_is_valid)>>
        \o LittleEndian(root.reserved2, 1)
        \o LittleEndian(root.reserved3, 2)

\* the Root of a file as it lies on disk: bytes that differ from field to
\* field, with the given status byte; an integer of 4 or 8 bytes stays below
\* 2^31
SampleStatusBytes == {0, 1, 2, 3, 4, 128, 255}

RootImage(unicode, seed, status_byte) ==
    LET n == BlockIdSIZE(unicode)
        pattern(i) == (i * 7 + seed) % 256
        \* the position of byte i (from 0) inside its integer
        within(i) == IF i < 4 THEN i
                     ELSE IF i < 4 + 8 * n THEN (i - 4) % n
                     ELSE 0
    IN  [j \in 1..RootSIZE(unicode) |->
            IF j - 1 = 4 + 8 * n THEN status_byte
            ELSE IF within(j - 1) < 3 THEN pattern(j - 1)
            ELSE IF within(j - 1) = 3 THEN pattern(j - 1) % 128
            ELSE 0]

RootRoundTripCalls ==
    {UnitCall("Root::read/write", [unicode |-> u, seed |-> s, status_byte |-> b]) :
        u \in BOOLEAN, s \in {1, 90, 200}, b \in SampleStatusBytes}

ReadThenWriteRoot(unicode, image) ==
    LET read == RootReadBytes(unicode, StreamOf(image))
    IN  [res |-> read.res, root |-> read.root,
         written |-> IF read.res = "Ok" THEN RootWriteBytes(unicode, read.root) ELSE <<>>]

(***************************************************************************)
(* SpecNdb: one call of one function.                                      *)
(***************************************************************************)

BlockIdNewCalls ==
    {UnitCall("BlockId::new", [bits |-> w, is_internal |-> b, index |-> i]) :
        w \in {U64}, b \in BOOLEAN, i \in SampleIndexes(U64)}
    \cup {UnitCall("BlockId::new", [bits |-> w, is_internal |-> b, index |-> i]) :
        w \in {U32}, b \in BOOLEAN, i \in SampleIndexes(U32)}

InitNdb ==
    /\ env = [overflow_checks |-> FALSE, writable |-> FALSE, regular |-> FALSE,
              program |-> "library"]
    /\ file = EmptyFile
    /\ pst = NoPst
    /\ pc = "ndb"
    /\ last = NoCall
    /\ trace = <<>>
    /\ \/ unit \in BlockIdNewCalls
       \/ unit \in {UnitCall("block_size", [size |-> n]) : n \in SampleSizes}
       \/ unit \in BlockReadCalls
       \/ unit \in BlockRoundTripCalls
       \/ unit \in BTreePageReadCalls
       \/ unit \in BTreePageRoundTripCalls
       \/ unit \in TreeBlockReadCalls
       \/ unit \in FindEntryCalls
       \/ unit \in BlocksCalls
       \/ unit \in AmapPageCalls
       \/ unit \in MarkPageCalls
       \/ unit \in MapPageWriteCalls
       \/ unit \in TreeBlockRoundTripCalls
       \/ unit \in TreeBlockHeaderCalls
       \/ unit \in RootRoundTripCalls

Return(fn, out) ==
    /\ pc = "ndb"
    /\ unit.fn = fn
    /\ ~unit.done
    /\ unit' = [unit EXCEPT !.out = out, !.done = TRUE]
    /\ UNCHANGED <<env, file, pst, pc, last, trace>>

BlockIdNew ==
    Return("BlockId::new",
           IF unit.arg.bits = U64
           THEN UnicodeBlockIdNew(unit.arg.is_internal, unit.arg.index)
           ELSE AnsiBlockIdNew(unit.arg.is_internal, unit.arg.index))

BlockSize == Return("block_size", [size |-> block_size(unit.arg.size)])

BlockRead ==
    Return("Block::read",
           DataBlockRead(unit.arg.unicode, BlockReadFile(unit.arg), unit.arg.size, unit.arg.encoding,
                         unit.arg.overflow_checks))

BlockWriteRead ==
    Return("Block::write/read",
           WriteThenRead(unit.arg.unicode, unit.arg.encoding, unit.arg.data,
                         unit.arg.signature, unit.arg.block_id, unit.arg.overflow_checks))

BTreePageReadAct ==
    Return("BTreePage::read",
           BTreePageRead(unit.arg.unicode, unit.arg.entry_size,
                         BTreePageReadFile(unit.arg)))

BTreePageWriteRead ==
    Return("BTreePage::write/read",
           WriteThenReadPage(unit.arg.unicode, unit.arg.entry_size, unit.arg.level,
                             unit.arg.entries, unit.arg.page_type))

TreeBlockReadAct ==
    Return("TreeBlock::read",
           TreeBlockRead(unit.arg.unicode, unit.arg.kind, TreeBlockReadFile(unit.arg),
                         unit.arg.size,
                         unit.arg.overflow_checks))

FindEntry ==
    Return("SubNodeTree::find_entry",
           find_entry(unit.arg.unicode, unit.arg.tree, SubNodeFile(unit.arg.unicode),
                      unit.arg.block_btree, unit.arg.node, unit.arg.overflow_checks))

Blocks ==
    Return("DataTree::blocks",
           blocks(unit.arg.unicode, unit.arg.tree,
                  DataTreeFile(unit.arg.unicode, unit.arg.encoding, unit.arg.corrupt),
                  unit.arg.encoding, unit.arg.block_btree, unit.arg.overflow_checks))

AmapPage ==
    Return("rebuild_allocation_map::amap_page", NewAllocationMapPageInfo(unit.arg.index))

MarkPage ==
    Return("mark_page_allocation",
           mark_page_allocation(unit.arg.index, unit.arg.amap_pages,
                                unit.arg.overflow_checks))

WriteMapPage ==
    Return("rebuild_allocation_map::write_page",
           MapPageWrite(unit.arg.num_amap_pages, unit.arg.page_type, unit.arg.index))

TreeBlockWriteRead ==
    Return("TreeBlock::write/read",
           TreeWriteThenRead(unit.arg.unicode, unit.arg.kind, unit.arg.level,
                             unit.arg.entries, unit.arg.signature, unit.arg.block_id,
                             unit.arg.overflow_checks))

TreeBlockReadHeader ==
    Return("TreeBlock::read header",
           TreeBlockRead(unit.arg.unicode, unit.arg.kind, TreeBlockHeaderFile(unit.arg),
                         unit.arg.size, unit.arg.overflow_checks))

RootReadWriteAct ==
    Return("Root::read/write",
           ReadThenWriteRoot(unit.arg.unicode,
                             RootImage(unit.arg.unicode, unit.arg.seed, unit.arg.status_byte)))

NextNdb ==
    \/ BlockIdNew
    \/ BlockSize
    \/ BlockRead
    \/ BlockWriteRead
    \/ BTreePageReadAct
    \/ BTreePageWriteRead
    \/ TreeBlockReadAct
    \/ FindEntry
    \/ Blocks
    \/ AmapPage
    \/ MarkPage
    \/ WriteMapPage
    \/ TreeBlockWriteRead
    \/ TreeBlockReadHeader
    \/ RootReadWriteAct

SpecNdb == InitNdb /\ [][NextNdb]_vars

(***************************************************************************)
(* What the claims speak of.                                               *)
(***************************************************************************)
StatusBefore == last.before.pst.header.root.amap_is_valid

\* the last call was rebuild_allocation_map on an object whose header said Invalid
RebuildOnInvalid == last.op = "rebuild_allocation_map" /\ StatusBefore = "Invalid"

\* ... and it returned Ok
RebuildSucceeded == RebuildOnInvalid /\ last.res = "Ok"

\* the events end with the header, holding the status byte, and a flush
EndsWithHeaderAndFlush(events, status_byte) ==
    /\ Len(events) >= 2
    /\ events[Len(events)] = Flush
    /\ events[Len(events) - 1].op = "write_header"
    /\ events[Len(events) - 1].root.amap_is_valid = status_byte

WritesPageOfType(events, page_type) ==
    \E i \in 1..Len(events) :
        events[i].op = "write_page" /\ events[i].page.trailer.page_type = page_type

(***************************************************************************)
(* C1: on a writable file whose status is Valid, the example's sequence    *)
(* start_write, start_write, finish_write is a protocol: the first         *)
(* start_write does not rebuild, writes the header with status Invalid and *)
(* flushes; the second observes Invalid and runs the rebuild (it writes    *)
(* AMap pages); finish_write writes the header with status Valid and       *)
(* flushes, so the program ends with Valid on disk.                        *)
(***************************************************************************)
C1_StartStartFinish ==
    (env.program = "rebuild_amap" /\ Len(trace) >= 1 /\ trace[1].observed = "Valid")
    =>
    /\ trace[1].res = "Ok" =>
          /\ ~trace[1].ran
          /\ Len(trace[1].events) = 2
          /\ EndsWithHeaderAndFlush(trace[1].events, 0)
          /\ ~WritesPageOfType(trace[1].events, "AllocationMap")
          /\ trace[1].status_on_disk = 0
    /\ (Len(trace) >= 2 /\ trace[2].res = "Ok") =>
          /\ trace[2].op = "start_write"
          /\ trace[2].observed = "Invalid"
          /\ trace[2].ran
          /\ WritesPageOfType(trace[2].events, "AllocationMap")
    /\ (Len(trace) >= 3 /\ trace[3].res = "Ok") =>
          /\ trace[3].op = "finish_write"
          /\ EndsWithHeaderAndFlush(trace[3].events, 2)
          /\ Len(trace[3].events) = 2
          /\ trace[3].status_on_disk = 2
          /\ file.root.amap_is_valid = 2
          /\ pc = "done"

C1_Witness ==
    /\ pc = "done"
    /\ trace[1].observed = "Valid"
    /\ trace[2].ran
    /\ file.root.amap_is_valid = 2

(***************************************************************************)
(* C2: when the status is Valid or PartiallyValid, rebuild_allocation_map  *)
(* returns Ok, asks nothing of the writer, and leaves the file and the     *)
(* object (its header) as they were, also when there is no write handle.   *)
(***************************************************************************)
C2_NoOpWhenValid ==
    (last.op = "rebuild_allocation_map" /\ StatusBefore \in {"Valid", "PartiallyValid"})
    =>
    /\ last.res = "Ok"
    /\ ~last.ran
    /\ last.events = <<>>
    /\ file = last.before.file
    /\ pst = last.before.pst

C2_Witness ==
    /\ last.op = "rebuild_allocation_map"
    /\ StatusBefore = "PartiallyValid"
    /\ ~last.before.pst.writer.ok
    /\ last.res = "Ok"

(***************************************************************************)
(* C3: after a rebuild_allocation_map call that succeeded on an object     *)
(* whose status was Invalid, the next rebuild_allocation_map call on the   *)
(* same object is a no-op: it does not run and writes nothing.             *)
(***************************************************************************)
C3_RebuildIdempotent ==
    [][(RebuildSucceeded /\ last'.op = "rebuild_allocation_map")
        => (~last'.ran /\ last'.events = <<>>)]_vars

(***************************************************************************)
(* C4: opening a file whose status is Invalid regenerates the map pages:   *)
(* when open has returned on such a file, the rebuild has run (the AMap    *)
(* page at 0x4400 has been written).                                       *)
(***************************************************************************)
OpenedOnInvalid ==
    /\ last.op = "open"
    /\ last.res = "Ok"
    /\ RootRead(last.before.file.root).amap_is_valid = "Invalid"

C4_OpenRebuilds ==
    OpenedOnInvalid => AMAP_FIRST_OFFSET \in DOMAIN file.maps

(***************************************************************************)
(* C4, amended: opening a file whose status is Invalid regenerates         *)
(* nothing: when open has returned the file is unchanged, no map page has  *)
(* been written and the object's header says Invalid; the rebuild runs     *)
(* when rebuild_allocation_map is then called on the object and finds      *)
(* Invalid.                                                                *)
(***************************************************************************)
C4_OpenLeavesInvalid ==
    /\ OpenedOnInvalid =>
          /\ file = last.before.file
          /\ AMAP_FIRST_OFFSET \notin DOMAIN file.maps
          /\ last.events = <<>>
          /\ pst.header.root.amap_is_valid = "Invalid"
    /\ RebuildOnInvalid => last.ran

C4_Witness ==
    /\ OpenedOnInvalid
    /\ pst.open
    /\ pst.writer.ok
    /\ pst.header.root.amap_is_valid = "Invalid"

(***************************************************************************)
(* C5: a rebuild that ran marks as allocated the 512-byte slot (8 bits of  *)
(* the covering AMap page) of every page, intermediate and leaf, of both   *)
(* the node B-tree and the block B-tree reachable from Root.               *)
(***************************************************************************)
RECURSIVE PagesUnder(_, _, _)
PagesUnder(f, at, depth) ==
    IF depth = 0 \/ at \notin DOMAIN f.btree THEN {}
    ELSE {at} \cup UNION {PagesUnder(f, f.btree[at].entries[i].index, depth - 1) :
                              i \in 1..Len(f.btree[at].entries)}

SlotMarked(amap_pages, at) ==
    LET idx == at - AMAP_FIRST_OFFSET
        k == idx \div AMAP_DATA_SIZE
        first == (idx % AMAP_DATA_SIZE) \div 64
    IN  /\ k \in DOMAIN amap_pages
        /\ first..(first + 7) \subseteq BitsOf(amap_pages[k].amap_page.map_bits)

C5_MarksBothTrees ==
    RebuildSucceeded =>
        \A at \in PagesUnder(last.before.file,
                              last.before.pst.header.root.node_btree.index, 9)
                   \cup PagesUnder(last.before.file,
                                   last.before.pst.header.root.block_btree.index, 9) :
            SlotMarked(last.amap_pages, at)

(***************************************************************************)
(* C6: after a successful rebuild the Root.amap-free-size of the header    *)
(* written to the file is the sum of free_space over the AMap pages the    *)
(* rebuild produced.                                                       *)
(***************************************************************************)
RECURSIVE TotalFree(_, _)
TotalFree(amap_pages, indices) ==
    IF indices = {} THEN 0
    ELSE LET i == CHOOSE j \in indices : TRUE
         IN  amap_pages[i].free_space + TotalFree(amap_pages, indices \ {i})

HeadersWritten(events) ==
    {events[i].root : i \in {j \in 1..Len(events) : events[j].op = "write_header"}}

C6_FreeSizeIsSum ==
    RebuildSucceeded =>
        /\ HeadersWritten(last.events) # {}
        /\ \A root \in HeadersWritten(last.events) :
              root.amap_free_size = TotalFree(last.amap_pages, DOMAIN last.amap_pages)
        /\ file.root.amap_free_size = TotalFree(last.amap_pages, DOMAIN last.amap_pages)

C6_Witness ==
    /\ RebuildSucceeded
    /\ last.num_amap_pages >= 2
    /\ Len(last.marked) >= 2
    /\ file.root.amap_free_size > 0

(***************************************************************************)
(* C7: a rebuild that ran writes exactly num_amap AMap pages, where        *)
(* num_amap = ceil((file_eof_index - 0x4400) / 253952), the i-th at offset *)
(* 0x4400 + i * 253952, each of page type AllocationMap.                   *)
(***************************************************************************)
IsAmapWrite(event) ==
    event.op = "write_page" /\ event.page.trailer.page_type = "AllocationMap"

C7_AmapPagesWritten ==
    RebuildSucceeded =>
        LET span == last.before.pst.header.root.file_eof_index - AMAP_FIRST_OFFSET
            writes == SelectSeq(last.events, IsAmapWrite)
            n == Len(writes)
        IN  /\ (n - 1) * 253952 < span
            /\ span <= n * 253952
            /\ \A i \in 1..n : writes[i].at = 17408 + (i - 1) * 253952
            /\ \A i \in 1..Len(last.events) :
                  (last.events[i].op = "write_page"
                   /\ (last.events[i].at - 17408) % 253952 = 0)
                  => IsAmapWrite(last.events[i])
            /\ \A i \in 1..n : file.maps[writes[i].at] = writes[i].page

C7_Witness ==
    /\ RebuildSucceeded
    /\ Len(SelectSeq(last.events, IsAmapWrite)) >= 8
    /\ (last.before.pst.header.root.file_eof_index - AMAP_FIRST_OFFSET) % 253952 # 0

(***************************************************************************)
(* C8: for every AMap page index i < num_amap that reserves a PMap slot    *)
(* (i % 8 = 0) a PMap page is written directly after that AMap page, and   *)
(* likewise an FMap page and an FPMap page for every i that reserves their *)
(* slot; the map pages written are exactly the slots reserved.             *)
(***************************************************************************)
WrittenAt(events, page_type, at) ==
    \E j \in 1..Len(events) :
        /\ events[j].op = "write_page"
        /\ events[j].at = at
        /\ events[j].page.trailer.page_type = page_type

C8_MapPagesMatchSlots ==
    RebuildSucceeded =>
        \A i \in 0..(last.num_amap_pages - 1) :
            /\ has_pmap_page(i) <=>
                  WrittenAt(last.events, "AllocationPageMap", SlotOffset(i, 1))
            /\ has_fmap_page(i) <=> WrittenAt(last.events, "FreeMap", SlotOffset(i, 2))
            /\ has_fpmap_page(i) <=>
                  \E slot \in 2..3 : WrittenAt(last.events, "FreePageMap", SlotOffset(i, slot))

(***************************************************************************)
(* C9: in a successful rebuild the header is written only after every map  *)
(* page has been written and the writer flushed; the header write is       *)
(* followed by a second flush and no map page is written after the header. *)
(***************************************************************************)
MapPageTypes == {"AllocationMap", "AllocationPageMap", "FreeMap", "FreePageMap"}

C9_HeaderAfterPages ==
    RebuildSucceeded =>
        LET n == Len(last.events)
        IN  /\ n >= 3
            /\ last.events[n] = Flush
            /\ last.events[n - 1].op = "write_header"
            /\ last.events[n - 2] = Flush
            /\ \A i \in 1..(n - 3) :
                  /\ last.events[i].op = "write_page"
                  /\ last.events[i].page.trailer.page_type \in MapPageTypes

C9_Witness ==
    /\ RebuildSucceeded
    /\ WritesPageOfType(last.events, "AllocationMap")
    /\ WritesPageOfType(last.events, "AllocationPageMap")

(***************************************************************************)
(* C10: if the write handle could not be acquired at open, a later         *)
(* rebuild_allocation_map on a file whose status is Invalid fails with the *)
(* no-write-access error (an io error of kind PermissionDenied that        *)
(* carries the path) and changes no byte of the file.                      *)
(***************************************************************************)
RebuildWithoutWriter == RebuildOnInvalid /\ ~last.before.pst.writer.ok

C10_NoWriteAccess ==
    RebuildWithoutWriter =>
        /\ last.io = [kind |-> "PermissionDenied", what |-> Path]
        /\ file = last.before.file

(***************************************************************************)
(* C10, amended: without a write handle a rebuild_allocation_map on a file *)
(* whose status is Invalid never succeeds and changes no byte of the file; *)
(* it fails with the no-write-access error (PermissionDenied carrying the  *)
(* path) on every file on which the same call would succeed with a write   *)
(* handle, and otherwise ends as the earlier step that failed (building    *)
(* the pages, reading or marking a B-tree page) ends.                      *)
(***************************************************************************)
WouldSucceedWithWriter ==
    rebuild_allocation_map([last.before.pst EXCEPT !.writer.ok = TRUE],
                           last.before.file, env.overflow_checks).res = "Ok"

C10_FailsWithoutWriter ==
    RebuildWithoutWriter =>
        /\ last.res # "Ok"
        /\ last.events = <<>>
        /\ file = last.before.file
        /\ last.res = "NoWriteAccess" =>
              last.io = [kind |-> "PermissionDenied", what |-> Path]
        /\ WouldSucceedWithWriter <=> last.res = "NoWriteAccess"

C10_Witness ==
    /\ RebuildWithoutWriter
    /\ last.io = [kind |-> "PermissionDenied", what |-> Path]
    /\ Len(last.marked) >= 1

(***************************************************************************)
(* C11: for every Root and every B-tree page id, rebuild_allocation_map    *)
(* returns success or a typed error and never aborts the process, also     *)
(* when file_eof_index < 0x4400, when a page id is < 0x4400 and when a     *)
(* page id's 8 bits start unaligned in the last byte of an AMap bitmap.    *)
(***************************************************************************)
C11_NeverAborts ==
    last.op = "rebuild_allocation_map" => last.res # "abort"

(***************************************************************************)
(* C12: for both widths w (64 Unicode, 32 ANSI), BlockId::new(internal, i) *)
(* succeeds iff i <= MAX_BLOCK_INDEX = 2^(w-2) - 1, and then index() = i   *)
(* and is_internal() = internal; for every i > MAX_BLOCK_INDEX it fails    *)
(* with InvalidUnicodeBlockIndex(i) / InvalidAnsiBlockIndex(i) carrying i. *)
(***************************************************************************)
Returned(fn) == unit.fn = fn /\ unit.done

\* a <= b, as unsigned numbers
WordLessEq(a, b) ==
    \/ a = b
    \/ \E k \in DOMAIN a :
          /\ a[k] < b[k]
          /\ \A j \in DOMAIN a : j > k => a[j] = b[j]

\* 2^(w-2) - 1: the w-2 lowest bits set
TwoToWMinus2MinusOne(w) == Word(0..(w - 3), w)

C12_BlockIdNew ==
    /\ MAX_UNICODE_BLOCK_INDEX = TwoToWMinus2MinusOne(64)
    /\ MAX_ANSI_BLOCK_INDEX = TwoToWMinus2MinusOne(32)
    /\ Returned("BlockId::new") =>
          LET w == unit.arg.bits
              i == unit.arg.index
              r == unit.out
          IN  /\ r.res = "Ok" <=> WordLessEq(i, TwoToWMinus2MinusOne(w))
              /\ r.res = "Ok" =>
                    /\ BlockIdIndex(r.value) = i
                    /\ BlockIdIsInternal(r.value) = unit.arg.is_internal
              /\ r.res # "Ok" =>
                    /\ r.res = IF w = 64 THEN "InvalidUnicodeBlockIndex"
                                ELSE "InvalidAnsiBlockIndex"
                    /\ r.index = i

\* the largest index accepted, and the smallest index rejected
C12_Witness ==
    /\ Returned("BlockId::new")
    /\ unit.arg.is_internal
    /\ \/ unit.arg.index = MAX_UNICODE_BLOCK_INDEX /\ unit.out.res = "Ok"
       \/ unit.arg.index = Word({30}, 32) /\ unit.out.res = "InvalidAnsiBlockIndex"

(***************************************************************************)
(* C13: block_size(n) = 64 for n in 0..64, = 128 for n in 65..128, = 8192  *)
(* for every n >= 8192, and for every n in 64..8192 it is the least        *)
(* multiple of 64 that is >= n; the result is always a multiple of 64 in   *)
(* 64..8192.                                                               *)
(***************************************************************************)
C13_BlockSize ==
    Returned("block_size") =>
        LET n == unit.arg.size
            r == unit.out.size
        IN  /\ n \in 0..64 => r = 64
            /\ n \in 65..128 => r = 128
            /\ n >= 8192 => r = 8192
            /\ n \in 64..8192 =>
                  /\ r >= n
                  /\ \A m \in n..(r - 1) : m % 64 # 0
            /\ r % 64 = 0
            /\ r \in 64..8192

C13_Witness ==
    /\ Returned("block_size")
    /\ unit.arg.size = 8129
    /\ unit.out.size = 8192

(***************************************************************************)
(* C14: reading a leaf data block of payload size s, for every s with      *)
(* 1 <= s <= 8192 - trailer_size, consumes a footprint of exactly          *)
(* round_up_64(s + trailer_size) bytes: s payload bytes, then padding,     *)
(* then the trailer in the last trailer_size bytes of the footprint.       *)
(***************************************************************************)
RoundUp64(n) == ((n + 63) \div 64) * 64

C14_ReadFootprint ==
    (Returned("Block::read") /\ unit.arg.fault = "none") =>
        /\ unit.out.res = "Ok"
        /\ unit.out.f.pos = RoundUp64(unit.arg.size + TrailerSIZE(unit.arg.unicode))
        /\ unit.out.block.trailer.size = unit.arg.size

\* C15: a data block of either width and any crypt method that is written and
\* then read back from the same position, with the same size and crypt
\* method, is read successfully with the same payload, signature and block id
C15_BlockRoundTrip ==
    Returned("Block::write/read") =>
        /\ unit.out.write.res = "Ok"
        /\ unit.out.read.res = "Ok"
        /\ unit.out.read.block.data = unit.arg.data
        /\ unit.out.read.block.trailer.signature = unit.arg.signature
        /\ unit.out.read.block.trailer.block_id = unit.arg.block_id

\* the four fields of a B-tree page, as they lie in the written bytes at the
\* offset where read looks for them
FieldsWritten ==
    [i \in 1..4 |-> ByteAt(unit.out.written, BTREE_ENTRIES_SIZE(unit.arg.unicode) + i - 1)]

\* C16: a B-tree page of either tree and either width, with at most
\* max_entries entries and a level in 0..=8, that is written and then read
\* back is accepted with the same level and entries, and its entry_count,
\* max_entries, entry_size and level are written at offset 488 (Unicode) or
\* 496 (ANSI)
C16_BTreePageRoundTrip ==
    Returned("BTreePage::write/read") =>
        /\ unit.out.read.res = "Ok"
        /\ unit.out.read.page.level = unit.arg.level
        /\ unit.out.read.page.entries = unit.arg.entries
        /\ FieldsWritten = <<Len(unit.arg.entries),
                             MAX_BTREE_ENTRIES(unit.arg.unicode, unit.arg.entry_size),
                             unit.arg.entry_size, unit.arg.level>>

\* the error of the first violated condition, in the order entry count, max
\* entries, entry size, level, padding, page type, CRC
ExpectedPageError(fault) ==
    CASE fault.count -> "InvalidBTreeEntryCount"
      [] ~fault.count /\ fault.max -> "InvalidBTreeEntryMaxCount"
      [] ~fault.count /\ ~fault.max /\ fault.size -> "InvalidBTreeEntrySize"
      [] ~fault.count /\ ~fault.max /\ ~fault.size /\ fault.level -> "InvalidBTreePageLevel"
      [] ~fault.count /\ ~fault.max /\ ~fault.size /\ ~fault.level /\ fault.padding ->
            "InvalidBTreePagePadding"
      [] ~fault.count /\ ~fault.max /\ ~fault.size /\ ~fault.level /\ ~fault.padding
         /\ fault.page_type -> "UnexpectedPageType"
      [] ~fault.count /\ ~fault.max /\ ~fault.size /\ ~fault.level /\ ~fault.padding
         /\ ~fault.page_type /\ fault.crc -> "InvalidPageCrc"
      [] OTHER -> "Ok"

\* C17: reading a B-tree page succeeds only if the entry count is at most
\* max_entries, the stored max_entries and entry size are the variant's, the
\* level is in 0..=8, the Unicode padding is zero, the trailer's page type is
\* a B-tree type and the stored CRC is the CRC of the bytes before the
\* trailer; a page that violates several of these reports the first one
C17_BTreePageReadChecks ==
    Returned("BTreePage::read") =>
        /\ unit.out.res = ExpectedPageError(unit.arg.fault)
        /\ unit.out.res = "Ok" =>
              /\ unit.out.page.level = unit.arg.level
              /\ unit.out.page.entries = unit.arg.entries

C17_Witness ==
    /\ Returned("BTreePage::read")
    /\ unit.arg.unicode
    /\ ~unit.arg.fault.count /\ ~unit.arg.fault.max /\ ~unit.arg.fault.size
    /\ unit.arg.fault.level /\ unit.arg.fault.padding /\ unit.arg.fault.page_type
    /\ unit.arg.fault.crc
    /\ unit.out.res = "InvalidBTreePageLevel"
    /\ unit.out.what = 9

InvalidBlockTrailerId == {"InvalidUnicodeBlockTrailerId", "InvalidAnsiBlockTrailerId"}

\* C18: reading a leaf data block fails with InvalidBlockSize when the
\* trailer's size differs from the size requested, with
\* InvalidBlockTrailerId when the trailer's block id has the internal bit
\* set, and with InvalidBlockCrc when the CRC of the stored payload differs
\* from the trailer's; reading an intermediate tree block fails when its
\* trailer's block id has the internal bit clear; no block whose internal
\* bit disagrees with its kind is returned
C18_BlockReadChecks ==
    /\ Returned("Block::read") =>
          /\ unit.arg.fault = "size" => unit.out.res = "InvalidBlockSize"
          /\ unit.arg.fault = "internal" => unit.out.res \in InvalidBlockTrailerId
          /\ unit.arg.fault = "crc" => unit.out.res = "InvalidBlockCrc"
          /\ unit.out.res = "Ok" => ~is_internal(unit.out.block.trailer.block_id)
    /\ Returned("TreeBlock::read") =>
          /\ unit.arg.fault = "external" => unit.out.res # "Ok"
          /\ unit.out.res = "Ok" => is_internal(unit.out.block.trailer.block_id)

\* the entries of the tree searched, and those with a node id <= the target
RootEntries == unit.arg.tree.block.entries

AtMostTarget == {i \in 1..Len(RootEntries) : RootEntries[i].node <= unit.arg.node}

EqualTarget == {i \in 1..Len(RootEntries) : RootEntries[i].node = unit.arg.node}

\* C19: find_entry(target) on an intermediate sub-node block whose entries
\* are ordered by node id goes to the child of the last entry whose node id
\* is <= target, and fails with SubNodeNotFound(target) when there is no such
\* entry; on a leaf block it returns the block id of the first entry whose
\* node id (all 32 bits) equals target, and fails with
\* SubNodeNotFound(target) when there is none
C19_FindEntry ==
    Returned("SubNodeTree::find_entry") =>
        /\ (unit.arg.tree.kind = "SubNodeIntermediate" /\ AtMostTarget = {}) =>
              (unit.out.res = "SubNodeNotFound" /\ unit.out.what = unit.arg.node)
        /\ (unit.arg.tree.kind = "SubNodeIntermediate" /\ AtMostTarget # {}) =>
              /\ unit.out.res # "SubNodeNotFound"
              /\ \E i \in AtMostTarget :
                    /\ \A j \in AtMostTarget : j <= i
                    /\ unit.out.visited[1] = BlockIdInto(RootEntries[i].block)
        /\ (unit.arg.tree.kind = "SubNodeLeaf" /\ EqualTarget = {}) =>
              (unit.out.res = "SubNodeNotFound" /\ unit.out.what = unit.arg.node)
        /\ (unit.arg.tree.kind = "SubNodeLeaf" /\ EqualTarget # {}) =>
              /\ unit.out.res = "Ok"
              /\ \E i \in EqualTarget :
                    /\ \A j \in EqualTarget : i <= j
                    /\ unit.out.block = RootEntries[i].block

C19_Witness ==
    /\ Returned("SubNodeTree::find_entry")
    /\ unit.arg.tree.kind = "SubNodeIntermediate"
    /\ unit.arg.node = 129
    /\ unit.out.visited = <<BlockIdInto(RootEntries[2].block)>>

\* the children of the root of a blocks() call, as its entries name them:
\* whether the block B-tree holds the child, and what reading it gives
ChildLookup(i) ==
    BlockBTreeFindEntry(unit.arg.block_btree,
                        BlockIdInto(unit.arg.tree.block.entries[i].block))

ChildRead(i) ==
    DataTreeRead(unit.arg.unicode,
                 DataTreeFile(unit.arg.unicode, unit.arg.encoding, unit.arg.corrupt),
                 unit.arg.encoding, ChildLookup(i).entry, unit.arg.overflow_checks)

ChildFails(i) == ChildLookup(i).res # "Ok" \/ ChildRead(i).res # "Ok"

\* C20: blocks() on a leaf root yields that one block; on an intermediate
\* block it yields the leaves under its entries in entry order, each child
\* resolved through the block B-tree; if the lookup or the read of a child
\* fails, the call fails and yields no block
C20_Blocks ==
    Returned("DataTree::blocks") =>
        LET names == unit.arg.names
        IN  /\ names = <<>> =>
                  (unit.out.res = "Ok" /\ unit.out.blocks = <<unit.arg.tree.block>>)
            /\ (names # <<>> /\ \E i \in 1..Len(names) : ChildFails(i)) =>
                  (unit.out.res # "Ok" /\ unit.out.blocks = <<>>)
            /\ (names # <<>> /\ \A i \in 1..Len(names) : ~ChildFails(i)) =>
                  /\ unit.out.res = "Ok"
                  /\ Len(unit.out.blocks) = Len(names)
                  /\ \A i \in 1..Len(names) :
                        /\ unit.out.blocks[i].data = SampleData(LeafSize(names[i]))
                        /\ unit.out.blocks[i].trailer.block_id = LeafId(names[i])

C20_Witness ==
    /\ Returned("DataTree::blocks")
    /\ unit.arg.names = <<2, 1, 3>>
    /\ unit.arg.encoding = "Cyclic"
    /\ unit.out.res = "Ok"
    /\ Len(unit.out.blocks) = 3
    /\ unit.out.blocks[1].trailer.block_id = LeafId(2)
    /\ unit.out.blocks[3].data = SampleData(LeafSize(3))

Indicator(condition) == IF condition THEN 1 ELSE 0

(***************************************************************************)
(* C21: the AMap page built for index i, before any B-tree page is marked, *)
(* has reserved = 1 + [i % 8 = 0] + [i % 8 = 0, i >= 128 and               *)
(* (i - 128) % 496 = 0] + [i % 8 = 0, i >= 8192 and                        *)
(* (i - 8192) % (496 * 64) = 0]; the first `reserved` bytes of its bitmap  *)
(* are 0xFF and every other byte is 0; its free_space is                   *)
(* 253952 - reserved * 512.                                                *)
(***************************************************************************)
C21_AmapPageBuilt ==
    Returned("rebuild_allocation_map::amap_page") =>
        LET i == unit.arg.index
            reserved == 1 + Indicator(i % 8 = 0)
                          + Indicator(i % 8 = 0 /\ i >= 128 /\ (i - 128) % 496 = 0)
                          + Indicator(i % 8 = 0 /\ i >= 8192
                                      /\ (i - 8192) % (496 * 64) = 0)
        IN  /\ BitsOf(unit.out.amap_page.map_bits) = 0..(8 * reserved - 1)
            /\ unit.out.free_space = 253952 - reserved * 512
            /\ unit.out.amap_page.trailer.page_type = "AllocationMap"

C21_Witness ==
    /\ Returned("rebuild_allocation_map::amap_page")
    /\ unit.arg.index = 8192
    /\ unit.out.free_space = 253952 - 3 * 512
    /\ 23 \in BitsOf(unit.out.amap_page.map_bits)
    /\ 24 \notin BitsOf(unit.out.amap_page.map_bits)

(***************************************************************************)
(* C22: mark_page_allocation(offset), for every offset >= 0x4400 covered   *)
(* by an existing AMap page, with index = offset - 0x4400 selects the AMap *)
(* page index / 253952, sets exactly the 8 consecutive bits starting at    *)
(* bit (index % 253952) / 64, clears no bit, leaves every other bit and    *)
(* every other AMap page unchanged, and decreases that page's free_space   *)
(* by exactly 512.                                                         *)
(***************************************************************************)
C22_MarkPageAllocation ==
    Returned("mark_page_allocation") =>
        LET index == unit.arg.index - 17408
            k == index \div 253952
            first == (index % 253952) \div 64
            before == unit.arg.amap_pages
            after == unit.out.amap_pages
        IN  /\ unit.out.res = "Ok"
            /\ DOMAIN after = DOMAIN before
            /\ BitsOf(after[k].amap_page.map_bits)
                  = BitsOf(before[k].amap_page.map_bits) \cup first..(first + 7)
            /\ after[k].free_space = before[k].free_space - 512
            /\ after[k].amap_page.trailer = before[k].amap_page.trailer
            /\ \A j \in DOMAIN before : j # k => after[j] = before[j]

(***************************************************************************)
(* C23: the slot a rebuild marks for a B-tree page is the one that covers  *)
(* the page's own file offset, the byte index of the reference the page    *)
(* was read from: the 8 bits marked for the page start at the bit of that  *)
(* offset, whatever else the page stores.                                  *)
(***************************************************************************)
C23_MarksOwnOffset ==
    (RebuildOnInvalid /\ last.ran) =>
        \A i \in 1..Len(last.marked) :
            (last.marked[i].index - 17408) \div 64 = (last.marked[i].page - 17408) \div 64

(***************************************************************************)
(* C24: a rebuild that fails while it builds its pages or walks the        *)
(* B-tree (a B-tree page that cannot be read, AllocationMapPageNotFound,   *)
(* IntegerConversion, LockError) has written no byte and leaves the header *)
(* the object holds unchanged.                                             *)
(***************************************************************************)
RebuildFailures ==
    {"UnexpectedEof", "InvalidPageCrc", "AllocationMapPageNotFound",
     "IntegerConversion", "LockError"}

C24_FailureWritesNothing ==
    (RebuildOnInvalid /\ last.ran /\ last.res \in RebuildFailures) =>
        /\ last.events = <<>>
        /\ file = last.before.file
        /\ pst.header = last.before.pst.header
        /\ pst = last.before.pst

C24_Witness ==
    /\ RebuildOnInvalid
    /\ last.res = "AllocationMapPageNotFound"
    /\ Len(last.marked) >= 2
    /\ last.before.pst.writer.ok
    /\ file = last.before.file

(***************************************************************************)
(* C25: every AMap page a rebuild produces, whatever pages the walk        *)
(* reached (a page reached twice, slots that overlap, a page in a reserved *)
(* slot), has free_space = 253952 - 64 * (number of bits set in its map).  *)
(***************************************************************************)
C25_FreeSpaceCountsBits ==
    RebuildSucceeded =>
        \A k \in DOMAIN last.amap_pages :
            last.amap_pages[k].free_space
                = 253952 - 64 * Cardinality(BitsOf(last.amap_pages[k].amap_page.map_bits))

(***************************************************************************)
(* C26: every AMap, PMap, FMap and FPMap page a rebuild writes occupies a  *)
(* 512-byte slot whose 8 bits are set in the AMap page that covers it; in  *)
(* particular the FPMap page of AMap page 8192 + k * 496 * 64 lies inside  *)
(* that page's reserved prefix.                                            *)
(***************************************************************************)
C26_MapPagesInMarkedSlots ==
    Returned("rebuild_allocation_map::write_page") =>
        /\ unit.out.at % 512 = 0
        /\ SlotMarked(unit.out.amap_pages, unit.out.at)
        /\ unit.arg.page_type = "FreePageMap" =>
              /\ unit.out.covering = 8192 + unit.arg.index * 496 * 64
              /\ (unit.out.at - 17408) % 253952
                    < 253952 - unit.out.amap_pages[unit.out.covering].free_space

(***************************************************************************)
(* C27: for an intermediate tree block (XBLOCK, XXBLOCK, SIBLOCK, SLBLOCK) *)
(* of payload s = header_size + entry_count * entry_size, write places the *)
(* trailer in the last trailer_size bytes of the footprint                 *)
(* round_up_64(s + trailer_size) and read takes it from there: a block     *)
(* written and read back is read successfully with the same header and     *)
(* entries.  And read rejects with InvalidInternalBlockEntryCount a header *)
(* whose entry_count * entry_size exceeds s - header_size, for every       *)
(* 16-bit entry_count and every s.                                         *)
(***************************************************************************)
TreeTrailerInFootprint ==
    LET T == TrailerSIZE(unit.arg.unicode)
        footprint == RoundUp64(unit.arg.size + T)
        f == unit.out.write.f
    IN  /\ f.len = footprint
        /\ [i \in 1..T |-> ByteAt(f, footprint - T + i - 1)]
              = BlockTrailerBytes(unit.arg.unicode, unit.out.read.block.trailer)

C27_TreeBlockRoundTrip ==
    /\ Returned("TreeBlock::write/read") =>
          /\ unit.out.write.res = "Ok"
          /\ unit.out.read.res = "Ok"
          /\ unit.out.read.block.header = TreeHeader(unit.arg.level, Len(unit.arg.entries), 0)
          /\ unit.out.read.block.entries = unit.arg.entries
          /\ TreeTrailerInFootprint
    /\ (/\ Returned("TreeBlock::read header")
        /\ unit.arg.size >= HEADER_SIZE(unit.arg.unicode, unit.arg.kind)
        /\ unit.arg.entry_count * ENTRY_SIZE(unit.arg.unicode, unit.arg.kind)
              > unit.arg.size - HEADER_SIZE(unit.arg.unicode, unit.arg.kind))
       => unit.out.res = "InvalidInternalBlockEntryCount"

(***************************************************************************)
(* C28: every traversal terminates on every finite file: the walk of a     *)
(* rebuild over the node B-tree (like find_entry, entries and blocks over  *)
(* the block trees) returns a value or a typed error, also when the pages  *)
(* refer to one another in a cycle.  Stated for the files on which no      *)
(* single mark can fail: file_eof_index is at least 0x4400 and every       *)
(* B-tree page's trailer holds the page's own offset.                      *)
(***************************************************************************)
TrailersHoldOffsets(f) ==
    /\ f.root.node_btree.block = f.root.node_btree.index
    /\ \A at \in DOMAIN f.btree : BlockIdInto(f.btree[at].trailer.block_id) = at

C28_WalkTerminates ==
    (/\ RebuildOnInvalid
     /\ last.ran
     /\ last.before.pst.header.root.file_eof_index >= 17408
     /\ TrailersHoldOffsets(last.before.file))
    => last.res # "abort"

(***************************************************************************)
(* C29: opening a file (UnicodePstFile::open, AnsiPstFile::read) leaves    *)
(* the bytes of the file as they were, and the header the object holds     *)
(* after a successful open is the one that was on disk before the call.    *)
(***************************************************************************)
C29_OpenLeavesBytes ==
    last.op = "open" =>
        /\ file = last.before.file
        /\ last.res = "Ok" => pst.header.root = RootRead(last.before.file.root)

(***************************************************************************)
(* C30: reading a Root maps every status byte that is not a recognised     *)
(* status to Invalid (and a recognised one to its status), and every other *)
(* field survives read followed by write unchanged and in the same order:  *)
(* the bytes written are the bytes read, but for the status byte, which is *)
(* the byte of the status that was read.                                   *)
(***************************************************************************)
C30_RootRoundTrip ==
    Returned("Root::read/write") =>
        LET image == RootImage(unit.arg.unicode, unit.arg.seed, unit.arg.status_byte)
            at == (IF unit.arg.unicode THEN 68 ELSE 36) + 1
            status == CASE unit.arg.status_byte = 0 -> "Invalid"
                        [] unit.arg.status_byte = 1 -> "PartiallyValid"
                        [] unit.arg.status_byte = 2 -> "Valid"
                        [] OTHER -> "Invalid"
        IN  /\ unit.out.res = "Ok"
            /\ unit.out.root.amap_is_valid = status
            /\ Len(unit.out.written) = Len(image)
            /\ \A i \in 1..Len(image) : i # at => unit.out.written[i] = image[i]
            /\ unit.out.written[at] = (IF unit.arg.status_byte \in {1, 2}
                                       THEN unit.arg.status_byte ELSE 0)

C30_Witness ==
    /\ Returned("Root::read/write")
    /\ unit.arg.unicode
    /\ unit.arg.status_byte = 255
    /\ unit.out.root.amap_is_valid = "Invalid"
    /\ unit.out.root.node_btree.block # unit.out.root.node_btree.index
    /\ Len(unit.out.written) = 72
    /\ unit.out.written[69] = 0

====
